---- MODULE Spec2Model ----
(***************************************************************************)
(* State-machine model of the liveai-service proxy:                        *)
(*   - server.py / core/session_future.py : handshake bridge               *)
(*   - core/websocket_handler.py          : handle_client and the pump     *)
(*   - core/warmup_pool.py                : GeminiWarmupPool               *)
(*   - core/RobustWebSocketServerProtocol.py : PortScanProtector           *)
(* One connection is followed through the handshake and the pump (Spec);   *)
(* the pool (SpecPool) and the abuse gate (SpecGate) are process-wide      *)
(* objects with their own operations.                                      *)
(***************************************************************************)
EXTENDS Integers, Sequences, FiniteSets, TLC

(* ---------------------------- bounds ---------------------------------- *)
\* upstream events handle_gemini_responses consumes on one connection
MaxUp == 2
\* frames the client sends on one connection
MaxClient == 1
\* frames the client sends on one connection when every shape of frame is
\* considered (SpecFrames)
MaxFrames == 2
\* upstream messages of a conversation with transcriptions (SpecTurns)
MaxTurn == 4

(* ------------------------ connection state ---------------------------- *)
VARIABLES
  fut,          \* the asyncio.Future of the connection: none/pending/ok/fail/cancelled
  futInMap,     \* session_id is a key of session_futures
  bg,           \* pre_operation_background: idle/running/done
  sh,           \* safe_ws_handler position
  timedOut,     \* asyncio.wait_for raised TimeoutError
  consumed,     \* how many times the handler took the future's result
  closeCode,    \* code of the close the server code issued (0: none)
  closeReason,  \* its reason
  ws,           \* client socket: open / peer_closed / closed (by the server)
  inbox,        \* frames sent by the client and not yet read by the server
  out,          \* frames the server sent to the client, in order
  clientSent,   \* number of frames the client has sent
  hc,           \* handle_client position: idle/pump/finally/done
  reconnecting, \* handle_client's local flag
  ct,           \* handle_client_messages task: none/run/ret/exc/cancelled
  gt,           \* handle_gemini_responses task: none/run/ret/exc/cancelled
  gpc,          \* position of handle_gemini_responses inside its loop
  errs,         \* exceptions collected by the TaskGroup, in order
  cancelReq,    \* task the TaskGroup has asked to cancel: none/ct/gt
  tp,           \* process_tool_queue task: none/wait/exec/cancelled
  toolq,        \* envelopes waiting in tool_queue, oldest first
  tpCur,        \* the envelope process_tool_queue is working on, and its call
  unfinished,   \* tool_queue's count of items not yet marked done
  puts,         \* envelopes put on the connection's tool queues so far
  curTool,      \* session.current_tool_execution is set
  upstream,     \* session.genai_session: index into handles (0: not set)
  handles,      \* upstream handles ever created
  sessBase,     \* session.BaseInfo (0: not set)
  producer,     \* session.RocketMQ: none/new/initialized/shutdown
  activeSess,   \* session_id is in core.session's table
  regSessions,  \* session_id is in session_manager._sessions
  regConns,     \* websocket is in session_manager._connections
  upLeft,       \* upstream events still to come (bound)
  inTr,         \* input_transcriptions of handle_gemini_responses
  outTr,        \* output_transcriptions of handle_gemini_responses
  published,    \* messages the producer has sent to the message bus, in order
  texts,        \* data of the text frames the pipelines sent to the client
  is_receiving_response,   \* session.is_receiving_response
  received_model_response, \* session.received_model_response
  \* history variables (observers; no action reads them in a guard)
  signals,      \* ReconnectionCompleted raised by a pipeline
  entries,      \* times handle_messages was entered
  cleanups,     \* times handle_client's cleanup block ran
  wsCloseCalls, \* websocket.close() calls
  gaLog,        \* steps of the current go_away handling
  toolLog,      \* steps of process_tool_queue, in order
  turnsDone,    \* turn_complete messages process_server_content was given
  benign        \* only content, go_away and text frames have occurred

connVars == <<fut, futInMap, bg, sh, timedOut, consumed, closeCode, closeReason,
              ws, inbox, out, clientSent, hc, reconnecting, ct, gt, gpc, errs,
              cancelReq, tp, toolq, curTool, upstream, handles, sessBase,
              producer, activeSess, regSessions, regConns, upLeft,
              signals, entries, cleanups, wsCloseCalls, gaLog, benign,
              inTr, outTr, published, texts, tpCur, unfinished, puts, toolLog,
              is_receiving_response, received_model_response, turnsDone>>

toolVars == <<tpCur, unfinished, puts>>

turnVars == <<inTr, outTr, published, texts, is_receiving_response,
              received_model_response, turnsDone>>

\* the flags and the count of turns, which only process_server_content writes
flagVars == <<is_receiving_response, received_model_response, turnsDone>>

(* ------------------------- small helpers ------------------------------ *)
\* websocket.send(frame): delivered when the socket is open, raises otherwise
WsOpen == ws = "open"

SentTo(f, seq) == IF WsOpen THEN Append(seq, f) ELSE seq

\* the BaseInfo create_base_info builds for the connection
ConnBaseInfo == 1

Handle(a, b) == [aexit |-> a, closed |-> FALSE, sent |-> <<>>, base |-> b]

CloseHandle(hs, i) == [hs EXCEPT ![i].closed = TRUE]

(* ------------------ server.py: handshake bridge ----------------------- *)
hsVars == <<fut, futInMap, bg, sh, timedOut, consumed, closeCode, closeReason>>
pumpVars == <<hc, reconnecting, ct, gt, gpc, errs, cancelReq, tp, toolq, curTool,
              upstream, handles, sessBase, producer, activeSess, regSessions,
              regConns, upLeft, signals, entries, cleanups, wsCloseCalls, gaLog,
              turnVars, toolVars, toolLog>>

\* session_future.complete_session_future(session_id, result)
complete_session_future(ok) ==
  /\ fut' = IF futInMap /\ fut = "pending"
              THEN (IF ok THEN "ok" ELSE "fail")
              ELSE fut
  /\ futInMap' = FALSE

\* session_future.cancel_session_future(session_id)
cancel_session_future ==
  /\ fut' = IF futInMap /\ fut = "pending" THEN "cancelled" ELSE fut
  /\ futInMap' = FALSE

\* process_request on a WebSocket upgrade: create the future, start the
\* background preparation, let the handshake go on
process_request ==
  /\ sh = "idle"
  /\ fut' = "pending"
  /\ futInMap' = TRUE
  /\ bg' = "running"
  /\ sh' = "accepted"
  /\ UNCHANGED <<timedOut, consumed, closeCode, closeReason, ws, inbox, out,
                 clientSent, benign>>
  /\ UNCHANGED pumpVars

\* pre_operation_background: create_gsession succeeds or raises, and the
\* outcome is handed to complete_session_future
pre_operation_background ==
  /\ bg = "running"
  /\ \E ok \in BOOLEAN : complete_session_future(ok)
  /\ bg' = "done"
  /\ UNCHANGED <<sh, timedOut, consumed, closeCode, closeReason, ws, inbox, out,
                 clientSent, benign>>
  /\ UNCHANGED pumpVars

\* variant of ShSendReady in which the handler goes on to the lookup without
\* having sent the ready frame
ShSendReady_unsent ==
  /\ sh = "accepted"
  /\ sh' = IF WsOpen THEN "lookup" ELSE "finally"
  /\ UNCHANGED <<fut, futInMap, bg, timedOut, consumed, closeCode, closeReason,
                 ws, inbox, out, clientSent, benign>>
  /\ UNCHANGED pumpVars

\* safe_ws_handler, line 228: the ready frame
ShSendReady ==
  /\ sh = "accepted"
  /\ out' = SentTo("ready", out)
  /\ sh' = IF WsOpen THEN "lookup" ELSE "finally"
  /\ UNCHANGED <<fut, futInMap, bg, timedOut, consumed, closeCode, closeReason,
                 ws, inbox, clientSent, benign>>
  /\ UNCHANGED pumpVars

\* safe_ws_handler, lines 231-233: get_session_future, RuntimeError when absent
ShLookup ==
  /\ sh = "lookup"
  /\ sh' = IF futInMap THEN "await" ELSE "finally"
  /\ UNCHANGED <<fut, futInMap, bg, timedOut, consumed, closeCode, closeReason,
                 ws, inbox, out, clientSent, benign>>
  /\ UNCHANGED pumpVars

\* safe_ws_handler, lines 236-240: the awaited future has a result
ShResult ==
  /\ sh = "await"
  /\ fut \in {"ok", "fail"}
  /\ consumed' = consumed + 1
  /\ IF fut = "fail"
       THEN /\ closeCode' = 1008
            /\ closeReason' = "Gemini initialization failed"
            /\ ws' = IF WsOpen THEN "closed" ELSE ws
            /\ sh' = "finally"
       ELSE /\ UNCHANGED <<closeCode, closeReason, ws>>
            /\ sh' = "enter"
  /\ UNCHANGED <<fut, futInMap, bg, timedOut, inbox, out, clientSent, benign>>
  /\ UNCHANGED pumpVars

\* safe_ws_handler, line 236: wait_for gives up after 5 s, cancels the future
\* and raises TimeoutError, which the generic except clause logs
ShTimeout ==
  /\ sh = "await"
  /\ fut = "pending"
  /\ fut' = "cancelled"
  /\ timedOut' = TRUE
  /\ sh' = "finally"
  /\ UNCHANGED <<futInMap, bg, consumed, closeCode, closeReason, ws, inbox, out,
                 clientSent, benign>>
  /\ UNCHANGED pumpVars

\* safe_ws_handler, lines 259-263
ShFinally ==
  /\ sh = "finally"
  /\ cancel_session_future
  /\ sh' = "done"
  /\ UNCHANGED <<bg, timedOut, consumed, closeCode, closeReason, ws, inbox, out,
                 clientSent, benign>>
  /\ UNCHANGED pumpVars

\* the peer closes its end of the socket
ClientClose ==
  /\ sh \notin {"idle", "done"}
  /\ WsOpen
  /\ ws' = "peer_closed"
  /\ benign' = FALSE
  /\ UNCHANGED hsVars
  /\ UNCHANGED <<inbox, out, clientSent>>
  /\ UNCHANGED pumpVars

(* -------------- websocket_handler.py: handle_client, the pump --------- *)
obsVars == <<timedOut, consumed, closeCode, closeReason>>

\* process_tool_queue is not working on an envelope
NoEnvelope == [id |-> 0, calls |-> <<>>, i |-> 0]

\* handle_messages, lines 108-117: a fresh TaskGroup with the two pipelines;
\* handle_gemini_responses starts its tool_processor (lines 261-264)
EnterPump ==
  /\ ct' = "run"
  /\ gt' = "run"
  /\ gpc' = "recv"
  /\ errs' = <<>>
  /\ cancelReq' = "none"
  /\ tp' = "wait"
  /\ toolq' = <<>>
  /\ tpCur' = NoEnvelope
  /\ unfinished' = 0
  /\ entries' = entries + 1
  /\ inTr' = <<>>
  /\ outTr' = <<>>

\* core.session.create_session(session_id): a SessionState is made and kept
\* in the module's table of active sessions
create_session == activeSess' = TRUE

\* core.session.remove_session(session_id): the entry is dropped
remove_session == activeSess' = FALSE

\* handle_client, lines 568-576: session created, registered and filled in
HcPrologue ==
  /\ create_session
  /\ regSessions' = TRUE
  /\ regConns' = TRUE
  /\ upstream' = 1
  /\ sessBase' = ConnBaseInfo
  /\ producer' = "new"
  /\ reconnecting' = FALSE

\* safe_ws_handler, lines 245-246: `async with session as g_session` opens the
\* upstream (or raises) and handle_client starts with the entered handle;
\* whether that handle offers __aexit__ is what the code tests with hasattr
ShEnter ==
  /\ sh = "enter"
  /\ \E okc \in BOOLEAN, a \in BOOLEAN :
       IF okc
         THEN /\ handles' = <<Handle(a, ConnBaseInfo)>>
              /\ HcPrologue
              /\ EnterPump
              /\ hc' = "pump"
              /\ sh' = "client"
              /\ benign' = benign
         ELSE /\ sh' = "finally"
              /\ benign' = FALSE
              /\ UNCHANGED <<hc, reconnecting, ct, gt, gpc, errs, cancelReq, tp,
                             toolq, upstream, handles, sessBase, producer,
                             activeSess, regSessions, regConns, entries,
                             inTr, outTr, tpCur, unfinished>>
  /\ UNCHANGED <<fut, futInMap, bg, ws, inbox, out, clientSent, curTool, upLeft,
                 signals, cleanups, wsCloseCalls, gaLog, published, texts, puts,
                 toolLog>>
  /\ UNCHANGED flagVars
  /\ UNCHANGED obsVars

\* a client frame: the value of its "type" key ("none": no such key) and of
\* its "data" key ("": missing or empty)
Frame(t, d) == [type |-> t, data |-> d]

FrameTypes == {"text", "audio", "image", "end", "state", "other", "none"}

\* every shape of frame handle_client_messages tells apart
AllFrames ==
  {Frame(t, d) : t \in FrameTypes, d \in {"", "d"}}
    \cup {Frame("state", "stop"), Frame("state", "reconnect")}

\* the frames of a plain conversation
ClientFrames ==
  {Frame("text", "d"), Frame("text", ""), Frame("end", "d"),
   Frame("state", "stop"), Frame("state", "reconnect")}

HasFrame(seq, f) == \E i \in 1..Len(seq) : seq[i] = f

\* the client sends a frame of F (at most n on the connection); it waits in the
\* socket until the server reads it. late: the client had already received
\* "reconnected successfully"
ClientSendOf(F, n) ==
  /\ sh \notin {"idle", "done"}
  /\ WsOpen
  /\ clientSent < n
  /\ \E f \in F :
       /\ inbox' = Append(inbox, [type |-> f.type, data |-> f.data,
                                  late |-> HasFrame(out, "reconnected")])
       /\ benign' = (benign /\ f = Frame("text", "d"))
  /\ clientSent' = clientSent + 1
  /\ UNCHANGED hsVars
  /\ UNCHANGED <<ws, out>>
  /\ UNCHANGED pumpVars

ClientSend == ClientSendOf(ClientFrames, MaxClient)

(* ---- handle_client_messages (the client-to-upstream pipeline) ---- *)
\* the task stays in its loop, unless the TaskGroup asked to cancel it: the
\* step that was already scheduled is its last one
CtContinue ==
  /\ ct' = IF cancelReq = "ct" THEN "cancelled" ELSE "run"
  /\ cancelReq' = IF cancelReq = "ct" THEN "none" ELSE cancelReq
  /\ errs' = errs

\* the task ends: returned (st = "ret") or raised e (st = "exc"); a raise makes
\* the TaskGroup cancel the sibling if it is still running
CtEnds(st, e) ==
  /\ ct' = st
  /\ errs' = IF st = "exc" THEN Append(errs, e) ELSE errs
  /\ cancelReq' = IF st = "exc" /\ gt = "run" THEN "gt"
                  ELSE IF cancelReq = "ct" THEN "none" ELSE cancelReq

\* session.genai_session.__aexit__ where the handle offers it (hasattr test)
AexitIfOffered(hs, i) == IF hs[i].aexit THEN CloseHandle(hs, i) ELSE hs

UpSend(hs, i, m) == [hs EXCEPT ![i].sent = Append(@, m)]

\* variant of DataMissing that looks at the data of text frames only
DataMissing_text_only(m) == m.type = "text" /\ m.data = ""

\* line 197: `not data.get("data")`
DataMissing(m) == m.data = ""

\* variant of UpstreamMessage that ends the turn on every kind of input
UpstreamMessage_all_end_turn(m) ==
  [kind |-> m.type,
   mime |-> CASE m.type = "audio" -> "audio/pcm"
              [] m.type = "image" -> "image/jpeg"
              [] OTHER -> "",
   eot |-> TRUE,
   late |-> m.late]

\* lines 200-216: the arguments of session.genai_session.send for a frame of
\* type audio, image or text (end_of_turn is not passed for an image)
UpstreamMessage(m) ==
  [kind |-> m.type,
   mime |-> CASE m.type = "audio" -> "audio/pcm"
              [] m.type = "image" -> "image/jpeg"
              [] OTHER -> "",
   eot |-> (m.type # "image"),
   late |-> m.late]

\* lines 179-242: one frame read from the socket
CtRead ==
  /\ hc = "pump"
  /\ ct = "run"
  /\ inbox # <<>>
  /\ LET m == Head(inbox) IN
       /\ inbox' = Tail(inbox)
       /\ CASE m.type = "none" ->
                 \* line 196: no "type" key
                 /\ CtContinue
                 /\ UNCHANGED <<out, handles>>
            [] m.type # "none" /\ DataMissing(m) ->
                 \* lines 197-199: "data is null", return
                 /\ out' = SentTo("data_is_null", out)
                 /\ CtEnds("ret", "none")
                 /\ UNCHANGED handles
            [] m.type \in {"audio", "image", "text"} /\ ~DataMissing(m) ->
                 \* lines 200-217; a send on a closed handle raises: a
                 \* ConnectionClosed (break) or another exception
                 \* (re-raised); on an open handle the upstream may refuse
                 \* with a quota error (re-raised)
                 IF handles[upstream].closed
                   THEN /\ \E how \in {"ret", "exc"} : CtEnds(how, "Other")
                        /\ UNCHANGED <<out, handles>>
                   ELSE \E sent \in BOOLEAN :
                          IF sent
                            THEN /\ handles' = UpSend(handles, upstream, UpstreamMessage(m))
                                 /\ CtContinue
                                 /\ out' = out
                            ELSE /\ CtEnds("exc", "Quota")
                                 /\ UNCHANGED <<out, handles>>
            [] m.type = "state" /\ m.data = "stop" ->
                 \* lines 223-233: close the upstream, running = False, break
                 /\ handles' = AexitIfOffered(handles, upstream)
                 /\ CtEnds("ret", "none")
                 /\ out' = out
            [] m.type = "state" /\ m.data = "reconnect" ->
                 \* lines 234-240: close the upstream, break out of the
                 \* async for; `while running` iterates the socket again
                 /\ handles' = AexitIfOffered(handles, upstream)
                 /\ CtContinue
                 /\ out' = out
            [] OTHER ->
                 \* lines 218-219, 241-242 and a state frame with other
                 \* data: logged only
                 /\ CtContinue
                 /\ UNCHANGED <<out, handles>>
  /\ UNCHANGED hsVars
  /\ UNCHANGED <<ws, clientSent, benign>>
  /\ UNCHANGED <<hc, reconnecting, gt, gpc, tp, toolq, curTool, upstream,
                 sessBase, producer, activeSess, regSessions, regConns, upLeft,
                 signals, entries, cleanups, wsCloseCalls, gaLog>>
  /\ UNCHANGED turnVars
  /\ UNCHANGED <<toolVars, toolLog>>

\* lines 243-252: the socket iteration raises ConnectionClosedOK/Error once
\* the peer is gone and the buffered frames are read: break
CtPeerClosed ==
  /\ hc = "pump"
  /\ ct = "run"
  /\ ws = "peer_closed"
  /\ inbox = <<>>
  /\ CtEnds("ret", "none")
  /\ UNCHANGED hsVars
  /\ UNCHANGED <<ws, inbox, out, clientSent, benign>>
  /\ UNCHANGED <<hc, reconnecting, gt, gpc, tp, toolq, curTool, upstream, handles,
                 sessBase, producer, activeSess, regSessions, regConns, upLeft,
                 signals, entries, cleanups, wsCloseCalls, gaLog>>
  /\ UNCHANGED turnVars
  /\ UNCHANGED <<toolVars, toolLog>>

\* the TaskGroup's cancellation reaches the client task at its await
CtCancelled ==
  /\ hc = "pump"
  /\ ct = "run"
  /\ cancelReq = "ct"
  /\ ct' = "cancelled"
  /\ cancelReq' = "none"
  /\ UNCHANGED hsVars
  /\ UNCHANGED <<ws, inbox, out, clientSent, benign>>
  /\ UNCHANGED <<hc, reconnecting, gt, gpc, errs, tp, toolq, curTool, upstream,
                 handles, sessBase, producer, activeSess, regSessions, regConns,
                 upLeft, signals, entries, cleanups, wsCloseCalls, gaLog>>
  /\ UNCHANGED turnVars
  /\ UNCHANGED <<toolVars, toolLog>>

(* ---- text of a message: a sequence of characters ---- *)
\* the classes of characters the cleaners tell apart: [\u4e00-\u9fff],
\* [A-Za-z], [0-9], \s, the full-width marks of rule 6, the double quote and
\* the backslash; "!" stands for every other character
Cjk == {"zh1", "zh2", "zh3", "zh4"}
Latin == {"H", "e", "l", "o", "h"}
Digits == {"1"}
Whitespace == {" ", "tab"}
CjkMarks == {"zh,"}

IsWs(c) == c \in Whitespace

\* ''.join(parts)
RECURSIVE Join(_)
Join(parts) == IF parts = <<>> THEN <<>> ELSE Head(parts) \o Join(Tail(parts))

\* the maximal run of whitespace around position i of x, and its neighbours
\* ("" where the run touches an end of the text)
RunLo(x, i) == CHOOSE j \in 1..i : (\A k \in j..i : IsWs(x[k])) /\ (j = 1 \/ ~IsWs(x[j - 1]))
RunHi(x, i) == CHOOSE j \in i..Len(x) : (\A k \in i..j : IsWs(x[k])) /\ (j = Len(x) \/ ~IsWs(x[j + 1]))
LeftOf(x, i) == IF RunLo(x, i) = 1 THEN "" ELSE x[RunLo(x, i) - 1]
RightOf(x, i) == IF RunHi(x, i) = Len(x) THEN "" ELSE x[RunHi(x, i) + 1]

\* text.strip()
Strip(x) ==
  Join([i \in 1..Len(x) |->
          IF IsWs(x[i]) /\ (LeftOf(x, i) = "" \/ RightOf(x, i) = "") THEN <<>> ELSE <<x[i]>>])

\* re.sub(r'\s+', ' ', text)
CollapseWs(x) ==
  Join([i \in 1..Len(x) |->
          IF IsWs(x[i]) THEN (IF RunLo(x, i) = i THEN <<" ">> ELSE <<>>) ELSE <<x[i]>>])

\* re.sub(r'(?<=[L])\s+(?=[R])', '', text)
RemoveWsBetween(x, L, R) ==
  Join([i \in 1..Len(x) |->
          IF IsWs(x[i]) /\ LeftOf(x, i) \in L /\ RightOf(x, i) \in R THEN <<>> ELSE <<x[i]>>])

\* re.sub(r'(?<=[L])\s*(?=[R])', ' ', text)
SpaceBetween(x, L, R) ==
  Join([i \in 1..Len(x) |->
          IF IsWs(x[i]) /\ LeftOf(x, i) \in L /\ RightOf(x, i) \in R
            THEN (IF RunLo(x, i) = i THEN <<" ">> ELSE <<>>)
            ELSE IF i < Len(x) /\ x[i] \in L /\ x[i + 1] \in R
                   THEN <<x[i], " ">>
                   ELSE <<x[i]>>])

\* re.sub(r'\s*([P])\s*', r'\1', text)
RemoveWsAround(x, P) ==
  Join([i \in 1..Len(x) |->
          IF IsWs(x[i]) /\ (LeftOf(x, i) \in P \/ RightOf(x, i) \in P) THEN <<>> ELSE <<x[i]>>])

CountIn(x, S) == Cardinality({i \in 1..Len(x) : x[i] \in S})

\* lines 391-398 with the comparisons of lines 414 and 428: a ratio >= 0.6
\* or < 0.2 of the characters of the text (no ratio of an empty text is taken)
AtLeast60(n, total) == 10 * n >= 6 * total
Below20(n, total) == 10 * n < 2 * total

\* smart_clean_spaces, lines 401-438
smart_clean_spaces(text) ==
  IF Strip(text) = <<>> THEN text
  ELSE IF AtLeast60(CountIn(text, Latin), Len(text)) /\ Below20(CountIn(text, Cjk), Len(text))
    THEN text
  ELSE
    LET r2 == CollapseWs(text)
        r3 == RemoveWsBetween(r2, Cjk, Cjk)
        r4 == RemoveWsBetween(RemoveWsBetween(r3, Digits, Cjk), Cjk, Digits)
        r5 == IF AtLeast60(CountIn(text, Cjk), Len(text))
                THEN RemoveWsBetween(RemoveWsBetween(r4, Cjk, Latin), Latin, Cjk)
                ELSE SpaceBetween(SpaceBetween(r4, Cjk, Latin), Latin, Cjk)
        r6 == RemoveWsAround(r5, CjkMarks)
    IN  Strip(r6)

\* data.replace('\\"', '')
RECURSIVE RemoveEscapedQuotes(_)
RemoveEscapedQuotes(x) ==
  IF Len(x) < 2 THEN x
  ELSE IF x[1] = "\\" /\ x[2] = "\""
    THEN RemoveEscapedQuotes(SubSeq(x, 3, Len(x)))
    ELSE <<x[1]>> \o RemoveEscapedQuotes(Tail(x))

\* re.sub(r'\s{2,}', ' ', text)
CollapseLongWs(x) ==
  Join([i \in 1..Len(x) |->
          IF IsWs(x[i]) /\ RunLo(x, i) < RunHi(x, i)
            THEN (IF RunLo(x, i) = i THEN <<" ">> ELSE <<>>)
            ELSE <<x[i]>>])

\* clean_unbalanced_or_extra_quotes, lines 440-459
clean_unbalanced_or_extra_quotes(data) ==
  Strip(CollapseLongWs(SelectSeq(RemoveEscapedQuotes(data), LAMBDA c : c # "\"")))

(* ---- handle_gemini_responses (the upstream-to-client pipeline) ---- *)
\* the task leaves the function; its finally block (lines 326-341) cancels
\* the tool processor (whose own finally block marks its envelope done) and
\* empties the tool queue, marking each item done
GtEnds(st, e) ==
  /\ gt' = st
  /\ gpc' = "recv"
  /\ tp' = "cancelled"
  /\ toolq' = <<>>
  /\ tpCur' = NoEnvelope
  /\ unfinished' = 0
  /\ puts' = puts
  /\ errs' = IF st = "exc" THEN Append(errs, e) ELSE errs
  /\ cancelReq' = IF st = "exc" /\ ct = "run" THEN "ct"
                  ELSE IF cancelReq = "gt" THEN "none" ELSE cancelReq
  /\ signals' = IF st = "exc" /\ e = "RC" THEN signals + 1 ELSE signals

\* the task goes on at position p with the envelopes q queued (tool_queue.put
\* counts each new one as unfinished), unless the TaskGroup asked to cancel
\* it: CancelledError at the next await
GtContinue(p, q) ==
  IF cancelReq = "gt"
    THEN GtEnds("cancelled", "none")
    ELSE /\ gpc' = p
         /\ toolq' = q
         /\ unfinished' = unfinished + (Len(q) - Len(toolq))
         /\ puts' = puts + (Len(q) - Len(toolq))
         /\ UNCHANGED <<gt, tp, errs, cancelReq, signals, tpCur>>

\* create_gsession(session.BaseInfo) and __aenter__ of the new handle
\* (lines 295-297, 317-319): the handle is bound to the Session's BaseInfo
NewUpstream(b) == Handle(TRUE, b)

UpEvents == {"content", "in_tr", "out_tr", "turn_complete", "tool_call",
             "go_away", "go_away0", "closed_ok", "closed_err", "quota", "other"}

\* variant of send_sync that sends the message a second time
send_sync_again(pr, pub, msg, initOk, sendOk) ==
  LET ready == pr = "initialized" \/ initOk IN
    [producer |-> IF ready THEN "initialized" ELSE pr,
     published |-> IF ready /\ sendOk THEN pub \o <<msg, msg>> ELSE pub]

\* RocketMQProducer.send_sync (rocketMQ.py, lines 48-68) on producer state pr
\* with the messages pub already sent: the producer is initialized on first
\* use (initOk: startup succeeds), then sends (sendOk: send succeeds)
send_sync(pr, pub, msg, initOk, sendOk) ==
  LET ready == pr = "initialized" \/ initOk IN
    [producer |-> IF ready THEN "initialized" ELSE pr,
     published |-> IF ready /\ sendOk THEN Append(pub, msg) ELSE pub]

\* create_message_body (rocketMQ.py, lines 109-120): the fields the model keeps
create_message_body(content, role) == [role |-> role, content |-> content]

\* process_server_content, lines 496-524: after the turn_complete frame, one
\* send_sync for each transcript that is not empty, the user's first
Publish(pr, pub, ins, outs, i1, s1, i2, s2) ==
  LET a == IF Join(ins) # <<>>
             THEN send_sync(pr, pub, create_message_body(Join(ins), "user"), i1, s1)
             ELSE [producer |-> pr, published |-> pub]
  IN  IF Join(outs) # <<>>
        THEN send_sync(a.producer, a.published,
                       create_message_body(Join(outs), "assistant"), i2, s2)
        ELSE a

\* the text of the messages of a plain conversation
Hello == <<"H", "e", "l", "l", "o", "!">>
PlainTexts == {Hello}

\* the function calls of the envelopes of a plain conversation
PlainCalls == {<<"tool">>}

\* line 261: tool_queue = asyncio.Queue(), whose maxsize is 0: no bound
ToolQueueMaxsize == 0

\* variant of full for a queue with room for one envelope
full_with_one(q) == q # <<>>

\* line 280: `await tool_queue.put(...)` waits while the queue is full, and a
\* queue whose maxsize is not positive is never full
full(q) == ToolQueueMaxsize > 0 /\ Len(q) >= ToolQueueMaxsize

\* variant of turn_complete_flag that leaves the flag as it is
turn_complete_flag_kept(f) == f

\* lines 497-501: the flags are cleared once the turn_complete frame has been
\* sent; a send that raises leaves them as they are
turn_complete_flag(f) == IF WsOpen THEN FALSE ELSE f

\* lines 270-303: one message (or one exception) from receive(), out of E,
\* its text (where it has one) out of T, its function calls out of V
GtRecvOn(E, T, V) ==
  /\ hc = "pump"
  /\ gt = "run"
  /\ gpc = "recv"
  /\ upLeft > 0
  /\ upLeft' = upLeft - 1
  /\ \E ev \in E :
       /\ benign' = (benign /\ ev \in {"content", "in_tr", "out_tr", "turn_complete",
                                       "go_away"})
       /\ CASE ev = "content" ->
                 \* lines 477-494: a model_turn with one text part; the flags
                 \* are set before any send; an empty text sends nothing
                 /\ \E t \in T :
                      /\ out' = IF t # <<>> THEN SentTo("text", out) ELSE out
                      /\ texts' = IF t # <<>>
                                    THEN SentTo(clean_unbalanced_or_extra_quotes(
                                                  smart_clean_spaces(t)), texts)
                                    ELSE texts
                 /\ received_model_response' = TRUE
                 /\ is_receiving_response' = TRUE
                 /\ GtContinue("recv", toolq)
                 /\ UNCHANGED <<handles, producer, gaLog, inTr, outTr, published, turnsDone>>
            [] ev = "in_tr" ->
                 \* lines 526-532
                 /\ \E t \in T :
                      inTr' = Append(inTr, IF t # <<>> THEN smart_clean_spaces(t) ELSE <<>>)
                 /\ GtContinue("recv", toolq)
                 /\ UNCHANGED <<out, handles, producer, gaLog, outTr, published, texts>>
                 /\ UNCHANGED flagVars
            [] ev = "out_tr" ->
                 \* lines 534-544: the text frame, then the append (skipped
                 \* when the send raised)
                 /\ \E t \in T :
                      IF t # <<>>
                        THEN /\ out' = SentTo("text", out)
                             /\ texts' = SentTo(smart_clean_spaces(t), texts)
                             /\ outTr' = SentTo(smart_clean_spaces(t), outTr)
                        ELSE /\ outTr' = Append(outTr, <<>>)
                             /\ UNCHANGED <<out, texts>>
                 /\ GtContinue("recv", toolq)
                 /\ UNCHANGED <<handles, producer, gaLog, inTr, published>>
                 /\ UNCHANGED flagVars
            [] ev = "turn_complete" ->
                 \* lines 496-524: the frame, then the flags are cleared and
                 \* the transcripts are published (bodyOk: create_message_body can convert the
                 \* userId); receive() ends with the turn and the loop of
                 \* line 267 makes new buffers
                 /\ out' = SentTo("turn_complete", out)
                 /\ \E bodyOk, i1, s1, i2, s2 \in BOOLEAN :
                      LET r == IF WsOpen /\ bodyOk
                                 THEN Publish(producer, published, inTr, outTr, i1, s1, i2, s2)
                                 ELSE [producer |-> producer, published |-> published]
                      IN  /\ producer' = r.producer
                          /\ published' = r.published
                 /\ inTr' = <<>>
                 /\ outTr' = <<>>
                 /\ received_model_response' = turn_complete_flag(received_model_response)
                 /\ is_receiving_response' = turn_complete_flag(is_receiving_response)
                 /\ turnsDone' = turnsDone + 1
                 /\ GtContinue("recv", toolq)
                 /\ UNCHANGED <<handles, gaLog, texts>>
            [] ev = "tool_call" ->
                 \* lines 279-281
                 /\ ~full(toolq)
                 /\ \E v \in V :
                      GtContinue("recv", Append(toolq, [id |-> puts + 1, calls |-> v]))
                 /\ UNCHANGED <<out, handles, producer, gaLog, inTr, outTr, published, texts>>
                 /\ UNCHANGED flagVars
            [] ev = "go_away0" ->
                 \* go_away without time_left: line 291 is false
                 /\ GtContinue("recv", toolq)
                 /\ gaLog' = <<>>
                 /\ UNCHANGED <<out, handles, producer, inTr, outTr, published, texts>>
                 /\ UNCHANGED flagVars
            [] ev = "go_away" ->
                 \* lines 291-293: close the old upstream if it offers __aexit__
                 /\ handles' = AexitIfOffered(handles, upstream)
                 /\ gaLog' = IF handles[upstream].aexit THEN <<"close">> ELSE <<>>
                 /\ GtContinue("ga_notify", toolq)
                 /\ UNCHANGED <<out, producer, inTr, outTr, published, texts>>
                 /\ UNCHANGED flagVars
            [] ev = "closed_ok" ->
                 \* line 313
                 /\ GtEnds("ret", "none")
                 /\ UNCHANGED <<out, handles, producer, gaLog, inTr, outTr, published, texts>>
                 /\ UNCHANGED flagVars
            [] ev = "closed_err" ->
                 \* line 315
                 /\ GtContinue("rc_create", toolq)
                 /\ gaLog' = <<"closed_err">>
                 /\ UNCHANGED <<out, handles, producer, inTr, outTr, published, texts>>
                 /\ UNCHANGED flagVars
            [] ev = "quota" ->
                 /\ GtEnds("exc", "Quota")
                 /\ UNCHANGED <<out, handles, producer, gaLog, inTr, outTr, published, texts>>
                 /\ UNCHANGED flagVars
            [] ev = "other" ->
                 /\ GtEnds("exc", "Other")
                 /\ UNCHANGED <<out, handles, producer, gaLog, inTr, outTr, published, texts>>
                 /\ UNCHANGED flagVars
  /\ UNCHANGED hsVars
  /\ UNCHANGED <<ws, inbox, clientSent>>
  /\ UNCHANGED <<hc, reconnecting, ct, curTool, upstream, sessBase, activeSess,
                 regSessions, regConns, entries, cleanups, wsCloseCalls, toolLog>>

GtRecv == GtRecvOn(UpEvents, PlainTexts, PlainCalls)

\* line 294: {"type":"state","data":"start reconnect"}; a failed send is
\* caught by the per-message handlers (304-312) and the loop goes on
GtNotifyStart ==
  /\ hc = "pump"
  /\ gt = "run"
  /\ gpc = "ga_notify"
  /\ out' = SentTo("start_reconnect", out)
  /\ gaLog' = IF WsOpen THEN Append(gaLog, "notify_start") ELSE gaLog
  /\ GtContinue(IF WsOpen THEN "ga_create" ELSE "recv", toolq)
  /\ UNCHANGED hsVars
  /\ UNCHANGED <<ws, inbox, clientSent, benign>>
  /\ UNCHANGED <<hc, reconnecting, ct, curTool, upstream, handles, sessBase,
                 producer, activeSess, regSessions, regConns, upLeft, entries,
                 cleanups, wsCloseCalls>>
  /\ UNCHANGED turnVars
  /\ UNCHANGED toolLog

\* lines 295-297 (go_away) and 317-319 (abnormal close): create, enter and
\* install the replacement. A failure is swallowed on the go_away path and
\* leaves the task on the abnormal-close path
GtCreate ==
  /\ hc = "pump"
  /\ gt = "run"
  /\ gpc \in {"ga_create", "rc_create"}
  /\ \E okc \in BOOLEAN :
       IF okc
         THEN /\ handles' = Append(handles, NewUpstream(sessBase))
              /\ upstream' = Len(handles) + 1
              /\ gaLog' = gaLog \o <<"create", "install">>
              /\ GtContinue(IF gpc = "ga_create" THEN "ga_done" ELSE "rc_done", toolq)
              /\ benign' = benign
         ELSE /\ UNCHANGED <<handles, upstream, gaLog>>
              /\ benign' = FALSE
              /\ IF gpc = "ga_create"
                   THEN GtContinue("recv", toolq)
                   ELSE GtEnds("exc", "Other")
  /\ UNCHANGED hsVars
  /\ UNCHANGED <<ws, inbox, out, clientSent>>
  /\ UNCHANGED <<hc, reconnecting, ct, curTool, sessBase, producer, activeSess,
                 regSessions, regConns, upLeft, entries, cleanups, wsCloseCalls>>
  /\ UNCHANGED turnVars
  /\ UNCHANGED toolLog

\* lines 299-302 and 321-323: "reconnected successfully", then raise
\* ReconnectionCompleted. A failed send is swallowed on the go_away path and
\* leaves the task with the socket's exception on the other
GtNotifyDone ==
  /\ hc = "pump"
  /\ gt = "run"
  /\ gpc \in {"ga_done", "rc_done"}
  /\ out' = SentTo("reconnected", out)
  /\ IF WsOpen
       THEN /\ gaLog' = gaLog \o <<"notify_done", "raise">>
            /\ GtEnds("exc", "RC")
       ELSE /\ gaLog' = gaLog
            /\ IF gpc = "ga_done"
                 THEN GtContinue("recv", toolq)
                 ELSE \E e \in {"ClosedText", "Other"} : GtEnds("exc", e)
  /\ UNCHANGED hsVars
  /\ UNCHANGED <<ws, inbox, clientSent, benign>>
  /\ UNCHANGED <<hc, reconnecting, ct, curTool, upstream, handles, sessBase,
                 producer, activeSess, regSessions, regConns, upLeft, entries,
                 cleanups, wsCloseCalls>>
  /\ UNCHANGED turnVars
  /\ UNCHANGED toolLog

\* the TaskGroup's cancellation reaches the upstream task at its await
GtCancelled ==
  /\ hc = "pump"
  /\ gt = "run"
  /\ cancelReq = "gt"
  /\ GtEnds("cancelled", "none")
  /\ UNCHANGED hsVars
  /\ UNCHANGED <<ws, inbox, out, clientSent, benign>>
  /\ UNCHANGED <<hc, reconnecting, ct, curTool, upstream, handles, sessBase,
                 producer, activeSess, regSessions, regConns, upLeft, entries,
                 cleanups, wsCloseCalls, gaLog>>
  /\ UNCHANGED turnVars
  /\ UNCHANGED toolLog

(* ---- process_tool_queue (the tool-queue consumer) ---- *)
\* an entry of toolLog: what happened (k) to call i of envelope id
\*   call: its function_call frame was sent      resp: its function_response
\*   frame was sent       raised: execute_tool raised       failed: a send raised
\*   sent: the envelope's tool response went upstream
\*   done: queue.task_done() for the envelope
Step(k, e) == [k |-> k, id |-> e.id, i |-> e.i, calls |-> e.calls]

\* variant of NextEnvelope that takes the newest envelope
NextEnvelope_newest(q) == q[Len(q)]

\* line 346: queue.get() hands out the oldest envelope
NextEnvelope(q) == Head(q)

\* variant of task_done that leaves the count as it is
task_done_skipped(u) == u

\* line 388: queue.task_done()
task_done(u) == u - 1

\* what execute_tool (core/tool_handler.py) can do when awaited at line 362
ExecuteToolOutcomes == {"returned", "raised"}

\* variant of SendsToolResponse that looks at the responses only
SendsToolResponse_always(calls) == calls # <<>>

\* line 380: the consolidated response is sent when there are responses and
\* the last call is not startLiveVideoChat
SendsToolResponse(calls) == calls # <<>> /\ calls[Len(calls)] # "startLiveVideoChat"

\* lines 346-360: take an envelope; for its first call record the task on the
\* Session and send the function_call frame. An envelope without calls is
\* done at once; a failed send is caught at line 385 and leaves
\* current_tool_execution set
TpTake ==
  /\ hc = "pump"
  /\ tp = "wait"
  /\ toolq # <<>>
  /\ LET env == NextEnvelope(toolq)
         cur == [id |-> env.id, calls |-> env.calls, i |-> 1]
     IN  /\ toolq' = Tail(toolq)
         /\ IF env.calls = <<>>
              THEN /\ toolLog' = Append(toolLog, Step("done", [cur EXCEPT !.i = 0]))
                   /\ unfinished' = task_done(unfinished)
                   /\ UNCHANGED <<tp, tpCur, curTool, out>>
              ELSE /\ curTool' = TRUE
                   /\ out' = SentTo("function_call", out)
                   /\ IF WsOpen
                        THEN /\ tp' = "exec"
                             /\ tpCur' = cur
                             /\ toolLog' = Append(toolLog, Step("call", cur))
                             /\ unfinished' = unfinished
                        ELSE /\ tp' = "wait"
                             /\ tpCur' = NoEnvelope
                             /\ toolLog' = toolLog \o <<Step("failed", cur), Step("done", cur)>>
                             /\ unfinished' = task_done(unfinished)
  /\ UNCHANGED hsVars
  /\ UNCHANGED <<ws, inbox, clientSent, benign>>
  /\ UNCHANGED <<hc, reconnecting, ct, gt, gpc, errs, cancelReq, upstream, handles,
                 sessBase, producer, activeSess, regSessions, regConns, upLeft,
                 signals, entries, cleanups, wsCloseCalls, gaLog, puts>>
  /\ UNCHANGED turnVars

\* lines 362-388: execute_tool returns or raises. After a return: the
\* function_response frame, the response kept, current_tool_execution
\* cleared; then the next call's function_call frame, or, after the last
\* call, the consolidated tool response upstream and task_done. A raise (of
\* execute_tool or of a send) is caught at line 385: task_done, back to
\* queue.get()
TpDone ==
  /\ hc = "pump"
  /\ tp = "exec"
  /\ \E res \in ExecuteToolOutcomes :
       LET nxt == [tpCur EXCEPT !.i = @ + 1] IN
       CASE res = "raised" ->
              /\ toolLog' = toolLog \o <<Step("raised", tpCur), Step("done", tpCur)>>
              /\ tp' = "wait"
              /\ tpCur' = NoEnvelope
              /\ unfinished' = task_done(unfinished)
              /\ benign' = FALSE
              /\ UNCHANGED <<out, curTool, handles>>
         [] res = "returned" /\ ~WsOpen ->
              /\ toolLog' = toolLog \o <<Step("failed", tpCur), Step("done", tpCur)>>
              /\ tp' = "wait"
              /\ tpCur' = NoEnvelope
              /\ unfinished' = task_done(unfinished)
              /\ benign' = FALSE
              /\ UNCHANGED <<out, curTool, handles>>
         [] res = "returned" /\ WsOpen /\ tpCur.i < Len(tpCur.calls) ->
              /\ out' = out \o <<"function_response", "function_call">>
              /\ toolLog' = toolLog \o <<Step("resp", tpCur), Step("call", nxt)>>
              /\ curTool' = TRUE
              /\ tp' = "exec"
              /\ tpCur' = nxt
              /\ benign' = benign
              /\ UNCHANGED <<handles, unfinished>>
         [] res = "returned" /\ WsOpen /\ tpCur.i >= Len(tpCur.calls) ->
              /\ out' = Append(out, "function_response")
              /\ curTool' = FALSE
              /\ IF SendsToolResponse(tpCur.calls) /\ ~handles[upstream].closed
                   THEN /\ handles' = UpSend(handles, upstream,
                                        [kind |-> "tool_response", mime |-> "",
                                         eot |-> FALSE, late |-> FALSE])
                        /\ toolLog' = toolLog \o <<Step("resp", tpCur), Step("sent", tpCur),
                                                   Step("done", tpCur)>>
                   ELSE /\ handles' = handles
                        /\ toolLog' = toolLog \o
                             (IF SendsToolResponse(tpCur.calls)
                                THEN <<Step("resp", tpCur), Step("failed", tpCur),
                                       Step("done", tpCur)>>
                                ELSE <<Step("resp", tpCur), Step("done", tpCur)>>)
              /\ tp' = "wait"
              /\ tpCur' = NoEnvelope
              /\ unfinished' = task_done(unfinished)
              /\ benign' = benign
  /\ UNCHANGED hsVars
  /\ UNCHANGED <<ws, inbox, clientSent>>
  /\ UNCHANGED <<hc, reconnecting, ct, gt, gpc, errs, cancelReq, toolq, upstream,
                 sessBase, producer, activeSess, regSessions, regConns, upLeft,
                 signals, entries, cleanups, wsCloseCalls, gaLog, puts>>
  /\ UNCHANGED turnVars

(* ---- handle_messages: leaving the TaskGroup ---- *)
\* lines 118-152: the except* block walks eg.exceptions in order.
\* Result: "RC" (raise exc), "return" (handled) or "raise" (re-raise the group),
\* with the frames it sent
RECURSIVE ExceptStar(_, _)
ExceptStar(es, open) ==
  IF es = <<>>
    THEN [res |-> "raise", frames |-> <<>>]
    ELSE CASE Head(es) = "RC" -> [res |-> "RC", frames |-> <<>>]
           [] Head(es) = "Quota" ->
                IF open
                  THEN [res |-> "return", frames |-> <<"error_quota", "text_warning">>]
                  ELSE ExceptStar(Tail(es), open)
           [] Head(es) = "ClosedText" -> [res |-> "return", frames |-> <<>>]
           [] OTHER -> ExceptStar(Tail(es), open)

\* lines 153-171, the finally block: with is_reconnecting set it executes
\* `return`, which discards the exception that is propagating
HandleMessagesFinally(res) == IF res = "RC" THEN "return" ELSE res

\* what handle_messages does once both tasks have ended
HandleMessagesResult(es, open) ==
  IF es = <<>>
    THEN [res |-> "return", frames |-> <<>>]
    ELSE LET r == ExceptStar(es, open)
         IN  [res |-> HandleMessagesFinally(r.res), frames |-> r.frames]

\* handle_messages returns or raises into handle_client's loop (lines 577-626):
\* a normal return breaks; ReconnectionCompleted sets reconnecting and
\* re-enters; anything else clears reconnecting, reports a general error and
\* leaves the loop
HandleMessagesExit ==
  /\ hc = "pump"
  /\ ct \in {"ret", "exc", "cancelled"}
  /\ gt \in {"ret", "exc", "cancelled"}
  /\ LET r == HandleMessagesResult(errs, WsOpen) IN
       CASE r.res = "return" ->
              /\ out' = out \o r.frames
              /\ hc' = "finally"
              /\ UNCHANGED <<reconnecting, ct, gt, gpc, errs, cancelReq, tp, toolq,
                             entries, inTr, outTr, tpCur, unfinished>>
         [] r.res = "RC" ->
              /\ out' = out \o r.frames
              /\ reconnecting' = TRUE
              /\ EnterPump
              /\ hc' = "pump"
         [] OTHER ->
              /\ out' = SentTo("error_general", out \o r.frames)
              /\ reconnecting' = FALSE
              /\ hc' = "finally"
              /\ UNCHANGED <<ct, gt, gpc, errs, cancelReq, tp, toolq, entries,
                             inTr, outTr, tpCur, unfinished>>
  /\ UNCHANGED hsVars
  /\ UNCHANGED <<ws, inbox, clientSent, benign>>
  /\ UNCHANGED <<curTool, upstream, handles, sessBase, producer, activeSess,
                 regSessions, regConns, upLeft, signals, cleanups, wsCloseCalls,
                 gaLog, published, texts, puts, toolLog>>
  /\ UNCHANGED flagVars

(* ---- handle_client: the finally block ---- *)
\* variant of RocketMQ_shutdown without the test of `initialized`: a second
\* shutdown of the same producer fails and leaves it broken
RocketMQ_shutdown_unguarded(pr) ==
  IF pr = "initialized" THEN "shutdown" ELSE IF pr = "shutdown" THEN "broken" ELSE pr

\* RocketMQProducer.shutdown, rocketMQ.py lines 99-107: acts on a producer that
\* is initialized only, and clears `initialized`
RocketMQ_shutdown(pr) == IF pr = "initialized" THEN "shutdown" ELSE pr

\* variant of cleanup_session that leaves the producer as it is
cleanup_session_keeps_producer ==
  /\ handles' = CloseHandle(handles, upstream)
  /\ producer' = producer
  /\ remove_session

\* cleanup_session, lines 57-103: the upstream is closed through __aexit__ or
\* close(), the producer is shut down (RocketMQProducer.shutdown acts on an
\* initialized producer), the session leaves core.session's table
cleanup_session ==
  /\ handles' = CloseHandle(handles, upstream)
  /\ producer' = RocketMQ_shutdown(producer)
  /\ remove_session

\* lines 627-642
HcFinally ==
  /\ hc = "finally"
  /\ IF reconnecting
       THEN UNCHANGED <<handles, producer, activeSess, regSessions, regConns, ws,
                        closeCode, cleanups, wsCloseCalls>>
       ELSE /\ cleanup_session
            /\ regSessions' = FALSE
            /\ regConns' = FALSE
            /\ ws' = "closed"
            /\ closeCode' = IF WsOpen THEN 1000 ELSE closeCode
            /\ cleanups' = cleanups + 1
            /\ wsCloseCalls' = wsCloseCalls + 1
  /\ hc' = "done"
  /\ UNCHANGED <<fut, futInMap, bg, sh, timedOut, consumed, closeReason>>
  /\ UNCHANGED <<inbox, out, clientSent, benign>>
  /\ UNCHANGED <<reconnecting, ct, gt, gpc, errs, cancelReq, tp, toolq, curTool,
                 upstream, sessBase, upLeft, signals, entries, gaLog>>
  /\ UNCHANGED turnVars
  /\ UNCHANGED <<toolVars, toolLog>>

\* bound: runs of the cleanup of lines 634-635 for one session_id
MaxCleanups == 2

\* cleanup_session(session, session_id) and session_manager.remove(websocket,
\* session_id), lines 634-635, run once more for a session that has been
\* cleaned up: __aexit__ on the closed handle (an error it raises is caught at
\* line 91), shutdown on the producer, remove_session (an error it raises is
\* caught at line 102), then pop(session_id, None) and discard(websocket)
CleanupAgain ==
  /\ hc = "done"
  /\ cleanups >= 1
  /\ cleanups < MaxCleanups
  /\ cleanup_session
  /\ regSessions' = FALSE
  /\ regConns' = FALSE
  /\ cleanups' = cleanups + 1
  /\ UNCHANGED hsVars
  /\ UNCHANGED <<ws, inbox, out, clientSent, benign>>
  /\ UNCHANGED <<hc, reconnecting, ct, gt, gpc, errs, cancelReq, tp, toolq, curTool,
                 upstream, sessBase, upLeft, signals, entries, wsCloseCalls, gaLog>>
  /\ UNCHANGED turnVars
  /\ UNCHANGED <<toolVars, toolLog>>

\* safe_ws_handler, lines 245-247: handle_client has returned and the
\* `async with session` block closes the handle it had entered
ShExit ==
  /\ sh = "client"
  /\ hc = "done"
  /\ handles' = CloseHandle(handles, 1)
  /\ sh' = "finally"
  /\ UNCHANGED <<fut, futInMap, bg, timedOut, consumed, closeCode, closeReason>>
  /\ UNCHANGED <<ws, inbox, out, clientSent, benign>>
  /\ UNCHANGED <<hc, reconnecting, ct, gt, gpc, errs, cancelReq, tp, toolq, curTool,
                 upstream, sessBase, producer, activeSess, regSessions, regConns,
                 upLeft, signals, entries, cleanups, wsCloseCalls, gaLog>>
  /\ UNCHANGED turnVars
  /\ UNCHANGED <<toolVars, toolLog>>

\* the state of a connection before its upgrade request, with n upstream
\* events to come
ConnInitFor(n) ==
  /\ fut = "none" /\ futInMap = FALSE /\ bg = "idle" /\ sh = "idle"
  /\ timedOut = FALSE /\ consumed = 0 /\ closeCode = 0 /\ closeReason = ""
  /\ ws = "open" /\ inbox = <<>> /\ out = <<>> /\ clientSent = 0
  /\ hc = "idle" /\ reconnecting = FALSE
  /\ ct = "none" /\ gt = "none" /\ gpc = "recv" /\ errs = <<>>
  /\ cancelReq = "none" /\ tp = "none" /\ toolq = <<>> /\ curTool = FALSE
  /\ tpCur = NoEnvelope /\ unfinished = 0 /\ puts = 0 /\ toolLog = <<>>
  /\ upstream = 0 /\ handles = <<>> /\ sessBase = 0 /\ producer = "none"
  /\ activeSess = FALSE /\ regSessions = FALSE /\ regConns = FALSE
  /\ upLeft = n
  /\ signals = 0 /\ entries = 0 /\ cleanups = 0 /\ wsCloseCalls = 0
  /\ gaLog = <<>> /\ benign = TRUE
  /\ inTr = <<>> /\ outTr = <<>>
  /\ published = <<>> /\ texts = <<>>
  /\ is_receiving_response = FALSE /\ received_model_response = FALSE
  /\ turnsDone = 0

ConnInit == ConnInitFor(MaxUp)

(* ---------------- core/warmup_pool.py: GeminiWarmupPool ---------------- *)
\* bound: get_session calls made on the pool
MaxGets == 2

DEFAULT_POOL_SIZE == 10
DEFAULT_CREATION_CONCURRENCY == 3
DEFAULT_BATCH_SIZE == 3

VARIABLES
  pq,        \* self._queue.qsize()
  pShut,     \* self._is_shutting_down
  wpc,       \* warmup_sessions: none/loop/gather/crashed/done
  wPend,     \* warmup's _create_and_put_safe tasks waiting for self._sem
  wCreating, \* warmup's tasks inside `async with self._sem`
  eWait,     \* ensure_pool_capacity tasks scheduled, not yet holding self._lock
  eLock,     \* an ensure_pool_capacity call holds self._lock and gathers
  ePend,     \* its _create_and_put_safe tasks waiting for self._sem
  eCreating, \* its tasks inside `async with self._sem`
  onDemand,  \* get_session calls creating a client outside the pool
  held,      \* clients handed out by get_session and not returned
  gets,      \* get_session calls so far
  kpc,       \* keep_alive: none/sleep/check/stopped
  snap,      \* entries of keep_alive's snapshot still to visit
  createFailed \* history: a client creation has raised

poolVars == <<pq, pShut, wpc, wPend, wCreating, eWait, eLock, ePend, eCreating,
              onDemand, held, gets, kpc, snap, createFailed>>

Min(a, b) == IF a < b THEN a ELSE b

Max(a, b) == IF a > b THEN a ELSE b

\* variant of Threshold that asks for a full queue
Threshold_full == DEFAULT_POOL_SIZE

\* threshold of ensure_pool_capacity, line 184
Threshold == Max(1, DEFAULT_POOL_SIZE \div 2)

\* permits of self._sem in use
SemInUse == wCreating + eCreating

PoolInit ==
  /\ pq = 0 /\ pShut = FALSE /\ wpc = "none"
  /\ wPend = 0 /\ wCreating = 0
  /\ eWait = 0 /\ eLock = FALSE /\ ePend = 0 /\ eCreating = 0
  /\ onDemand = 0 /\ held = 0 /\ gets = 0
  /\ kpc = "none" /\ snap = 0
  /\ createFailed = FALSE

\* server.initialize_warmup_background: keep_alive scheduled through
\* start_background_tasks, warmup_sessions started as a task
initialize_warmup_background ==
  /\ wpc = "none"
  /\ kpc = "none"
  /\ wpc' = "loop"
  /\ kpc' = "sleep"
  /\ UNCHANGED <<pq, pShut, wPend, wCreating, eWait, eLock, ePend, eCreating,
                 onDemand, held, gets, snap>>
  /\ UNCHANGED createFailed

\* warmup_sessions, lines 80-84: `created` is 0 here (line 87 never assigns)
warmup_sessions_batch ==
  /\ wpc = "loop"
  /\ IF pShut
       THEN /\ wpc' = "done"
            /\ UNCHANGED wPend
       ELSE /\ wPend' = Min(DEFAULT_BATCH_SIZE, DEFAULT_POOL_SIZE - 0)
            /\ wpc' = "gather"
  /\ UNCHANGED <<pq, pShut, wCreating, eWait, eLock, ePend, eCreating, onDemand,
                 held, gets, kpc, snap>>
  /\ UNCHANGED createFailed

\* warmup_sessions, lines 86-87: the batch is gathered, then
\* `await self._queue.qsize()` awaits an int and raises TypeError
warmup_sessions_gathered ==
  /\ wpc = "gather"
  /\ wPend = 0
  /\ wCreating = 0
  /\ wpc' = "crashed"
  /\ UNCHANGED <<pq, pShut, wPend, wCreating, eWait, eLock, ePend, eCreating,
                 onDemand, held, gets, kpc, snap>>
  /\ UNCHANGED createFailed

\* _create_and_put_safe, lines 94-97, for a task of the warmup batch
WarmupTaskStart ==
  /\ wPend > 0
  /\ IF pShut
       THEN /\ wPend' = wPend - 1
            /\ UNCHANGED wCreating
       ELSE /\ SemInUse < DEFAULT_CREATION_CONCURRENCY
            /\ wPend' = wPend - 1
            /\ wCreating' = wCreating + 1
  /\ UNCHANGED <<pq, pShut, wpc, eWait, eLock, ePend, eCreating, onDemand, held,
                 gets, kpc, snap>>
  /\ UNCHANGED createFailed

\* _create_and_put_safe, lines 98-103: the client is created and put, or the
\* creation raises and is logged
WarmupTaskEnd ==
  /\ wCreating > 0
  /\ wCreating' = wCreating - 1
  /\ \E created \in BOOLEAN :
       /\ pq' = IF created THEN pq + 1 ELSE pq
       /\ createFailed' = (createFailed \/ ~created)
  /\ UNCHANGED <<pShut, wpc, wPend, eWait, eLock, ePend, eCreating, onDemand,
                 held, gets, kpc, snap>>

\* the same two steps for a task of an ensure_pool_capacity wave
EnsureTaskStart ==
  /\ ePend > 0
  /\ IF pShut
       THEN /\ ePend' = ePend - 1
            /\ UNCHANGED eCreating
       ELSE /\ SemInUse < DEFAULT_CREATION_CONCURRENCY
            /\ ePend' = ePend - 1
            /\ eCreating' = eCreating + 1
  /\ UNCHANGED <<pq, pShut, wpc, wPend, wCreating, eWait, eLock, onDemand, held,
                 gets, kpc, snap>>
  /\ UNCHANGED createFailed

EnsureTaskEnd ==
  /\ eCreating > 0
  /\ eCreating' = eCreating - 1
  /\ \E created \in BOOLEAN :
       /\ pq' = IF created THEN pq + 1 ELSE pq
       /\ createFailed' = (createFailed \/ ~created)
  /\ UNCHANGED <<pShut, wpc, wPend, wCreating, eWait, eLock, ePend, onDemand,
                 held, gets, kpc, snap>>

\* variant of get_session that waits for the queue to hold a client
get_session_waits ==
  /\ gets < MaxGets
  /\ ~pShut
  /\ pq > 0
  /\ gets' = gets + 1
  /\ pq' = pq - 1
  /\ held' = held + 1
  /\ eWait' = eWait + 1
  /\ UNCHANGED <<pShut, wpc, wPend, wCreating, eLock, ePend, eCreating, kpc, snap,
                 onDemand>>
  /\ UNCHANGED createFailed

\* get_session, lines 152-169
get_session ==
  /\ gets < MaxGets
  /\ ~pShut
  /\ gets' = gets + 1
  /\ IF pq > 0
       THEN /\ pq' = pq - 1
            /\ held' = held + 1
            /\ eWait' = eWait + 1
            /\ UNCHANGED onDemand
       ELSE /\ onDemand' = onDemand + 1
            /\ UNCHANGED <<pq, held, eWait>>
  /\ UNCHANGED <<pShut, wpc, wPend, wCreating, eLock, ePend, eCreating, kpc, snap>>
  /\ UNCHANGED createFailed

\* get_session, lines 168-169: the on-demand creation returns or raises
get_session_created ==
  /\ onDemand > 0
  /\ onDemand' = onDemand - 1
  /\ \E created \in BOOLEAN :
       /\ held' = IF created THEN held + 1 ELSE held
       /\ createFailed' = (createFailed \/ ~created)
  /\ UNCHANGED <<pq, pShut, wpc, wPend, wCreating, eWait, eLock, ePend, eCreating,
                 gets, kpc, snap>>

\* ensure_pool_capacity, lines 180-191
ensure_pool_capacity ==
  /\ eWait > 0
  /\ pShut \/ ~eLock
  /\ eWait' = eWait - 1
  /\ IF pShut \/ pq >= Threshold
       THEN UNCHANGED <<eLock, ePend>>
       ELSE /\ eLock' = TRUE
            /\ ePend' = DEFAULT_POOL_SIZE - pq
  /\ UNCHANGED <<pq, pShut, wpc, wPend, wCreating, eCreating, onDemand, held,
                 gets, kpc, snap>>
  /\ UNCHANGED createFailed

\* ensure_pool_capacity, lines 193-194: the wave is gathered, the lock released
ensure_pool_capacity_done ==
  /\ eLock
  /\ ePend = 0
  /\ eCreating = 0
  /\ eLock' = FALSE
  /\ UNCHANGED <<pq, pShut, wpc, wPend, wCreating, eWait, ePend, eCreating,
                 onDemand, held, gets, kpc, snap>>
  /\ UNCHANGED createFailed

\* return_session, lines 200-211
return_session ==
  /\ held > 0
  /\ held' = held - 1
  /\ pq' = IF pShut THEN pq ELSE pq + 1
  /\ UNCHANGED <<pShut, wpc, wPend, wCreating, eWait, eLock, ePend, eCreating,
                 onDemand, gets, kpc, snap>>
  /\ UNCHANGED createFailed

\* keep_alive, lines 238-243: the sleep ends and the queue is snapshotted
keep_alive_wake ==
  /\ kpc = "sleep"
  /\ snap' = pq
  /\ kpc' = "check"
  /\ UNCHANGED <<pq, pShut, wpc, wPend, wCreating, eWait, eLock, ePend, eCreating,
                 onDemand, held, gets>>
  /\ UNCHANGED createFailed

\* keep_alive, lines 244-249: one snapshot entry is visited (sleep(0) does not
\* raise), or the pass is over and the loop condition is tested
keep_alive_visit ==
  /\ kpc = "check"
  /\ IF snap > 0
       THEN /\ snap' = snap - 1
            /\ UNCHANGED kpc
       ELSE /\ kpc' = IF pShut THEN "stopped" ELSE "sleep"
            /\ UNCHANGED snap
  /\ UNCHANGED <<pq, pShut, wpc, wPend, wCreating, eWait, eLock, ePend, eCreating,
                 onDemand, held, gets>>
  /\ UNCHANGED createFailed

\* shutdown, lines 276-306: the flag, background ensure tasks cancelled (with
\* the wave they gather), keep_alive cancelled, the queue drained
shutdown ==
  /\ ~pShut
  /\ wpc # "none"
  /\ pShut' = TRUE
  /\ eWait' = 0
  /\ eLock' = FALSE
  /\ ePend' = 0
  /\ eCreating' = 0
  /\ kpc' = "stopped"
  /\ snap' = 0
  /\ pq' = 0
  /\ UNCHANGED <<wpc, wPend, wCreating, onDemand, held, gets>>
  /\ UNCHANGED createFailed

(* ------- core/RobustWebSocketServerProtocol.py: PortScanProtector ------- *)
\* bound: the clock stops advancing here (seconds)
MaxNow == 2400

scan_threshold == 10
ban_duration == 1800
window == 300

\* addresses connecting to the server
IPs == {"a", "b"}

\* amounts by which time advances between two events
ClockSteps == {window, ban_duration}

\* a finer clock, for attempts inside one window
WindowSteps == {window \div 2, ban_duration}

VARIABLES
  now,                 \* time.time()
  connection_attempts, \* per IP, the timestamps kept
  banned_ips,          \* per IP, the ban-until time (0: not in the dict)
  gateLast,            \* the last robustness_middleware run
  handlerLast          \* the last handle_client run on an accepted socket

gateVars == <<now, connection_attempts, banned_ips, gateLast, handlerLast>>

NoRun == [ip |-> "", banned |-> FALSE, tripped |-> FALSE, code |-> 0, reason |-> ""]

GateInit ==
  /\ now = 0
  /\ connection_attempts = [i \in IPs |-> <<>>]
  /\ banned_ips = [i \in IPs |-> 0]
  /\ gateLast = NoRun
  /\ handlerLast = NoRun

\* the dict test of lines 28-29
Banned(ip) == banned_ips[ip] # 0 /\ now < banned_ips[ip]

\* lines 35-41: append now, keep the timestamps younger than 300 s
RECURSIVE Recent(_, _)
Recent(ts, t) ==
  IF ts = <<>> THEN <<>>
  ELSE IF t - Head(ts) < window
         THEN <<Head(ts)>> \o Recent(Tail(ts), t)
         ELSE Recent(Tail(ts), t)

\* variant of should_accept that refuses as soon as the threshold is reached
should_accept_at_threshold(ip) ==
  IF Banned(ip)
    THEN [accept |-> FALSE, attempts |-> connection_attempts[ip],
          until |-> banned_ips[ip]]
    ELSE LET kept == Recent(Append(connection_attempts[ip], now), now)
         IN  IF Len(kept) >= scan_threshold
               THEN [accept |-> FALSE, attempts |-> kept, until |-> now + ban_duration]
               ELSE [accept |-> TRUE, attempts |-> kept, until |-> 0]

\* PortScanProtector.should_accept(ip): the value returned and the new state
should_accept(ip) ==
  IF Banned(ip)
    THEN [accept |-> FALSE, attempts |-> connection_attempts[ip],
          until |-> banned_ips[ip]]
    ELSE LET kept == Recent(Append(connection_attempts[ip], now), now)
         IN  IF Len(kept) > scan_threshold
               THEN [accept |-> FALSE, attempts |-> kept, until |-> now + ban_duration]
               ELSE [accept |-> TRUE, attempts |-> kept, until |-> 0]

\* robustness_middleware(websocket), lines 58-63, for a socket of ip: the gate
\* is asked and a refused socket is closed with 1008 "Forbidden"
MiddlewareOn(ip) ==
  LET r == should_accept(ip) IN
    /\ connection_attempts' = [connection_attempts EXCEPT ![ip] = r.attempts]
    /\ banned_ips' = [banned_ips EXCEPT ![ip] = r.until]
    /\ gateLast' = [ip |-> ip, banned |-> Banned(ip),
                    tripped |-> (~Banned(ip) /\ ~r.accept),
                    code |-> IF r.accept THEN 0 ELSE 1008,
                    reason |-> IF r.accept THEN "" ELSE "Forbidden"]
    /\ UNCHANGED <<now, handlerLast>>

robustness_middleware == \E ip \in IPs : MiddlewareOn(ip)

\* handle_client, lines 561-569, on an accepted socket of ip: the call of
\* robustness_middleware at line 564 is a comment, the session is created
handle_client_start ==
  \E ip \in IPs :
    /\ handlerLast' = [ip |-> ip, banned |-> Banned(ip), tripped |-> FALSE,
                       code |-> 0, reason |-> ""]
    /\ UNCHANGED <<now, connection_attempts, banned_ips, gateLast>>

\* time passes, by one of the amounts of D
TickBy(D) ==
  \E d \in D :
    /\ now + d <= MaxNow
    /\ now' = now + d
    /\ UNCHANGED <<connection_attempts, banned_ips, gateLast, handlerLast>>

Tick == TickBy(ClockSteps)

(* ------------- core/session_manager.py: SessionManager ---------------- *)
\* bound: connections whose handlers run concurrently
MaxConns == 4

Conns == 1..MaxConns

VARIABLES
  smSessions,     \* keys of session_manager._sessions
  smConnections,  \* session_manager._connections
  hcAt            \* each connection's handle_client: new/added/removed/kept

regVars == <<smSessions, smConnections, hcAt>>

\* variant of session_id in which connections share one id
session_id_shared(conn) == <<"id", 0>>

\* server.py lines 198 and 226: str(id(conn)), one value per live object
session_id(conn) == <<"id", conn>>

RegInit ==
  /\ smSessions = {}
  /\ smConnections = {}
  /\ hcAt = [c \in Conns |-> "new"]

\* SessionManager.add, lines 12-16: both updates under the lock, no await
\* between them
add(websocket, sid) ==
  /\ smSessions' = smSessions \cup {sid}
  /\ smConnections' = smConnections \cup {websocket}

\* SessionManager.remove, lines 18-22: pop(session_id, None) and discard
remove(websocket, sid) ==
  /\ smSessions' = smSessions \ {sid}
  /\ smConnections' = smConnections \ {websocket}

\* handle_client line 569, for the connection c
HcAdd(c) ==
  /\ hcAt[c] = "new"
  /\ add(c, session_id(c))
  /\ hcAt' = [hcAt EXCEPT ![c] = "added"]

\* handle_client line 635, in the finally block of the connection c
HcRemove(c) ==
  /\ hcAt[c] = "added"
  /\ remove(c, session_id(c))
  /\ hcAt' = [hcAt EXCEPT ![c] = "removed"]

\* handle_client lines 628-629: the finally block of a handler whose
\* `reconnecting` is set skips the removal; the registry keeps the socket
HcKeep(c) ==
  /\ hcAt[c] = "added"
  /\ hcAt' = [hcAt EXCEPT ![c] = "kept"]
  /\ UNCHANGED <<smSessions, smConnections>>

\* a connection whose handler has removed it is released and a later
\* connection takes its place (and may be given the same id)
NextConnection(c) ==
  /\ hcAt[c] = "removed"
  /\ hcAt' = [hcAt EXCEPT ![c] = "new"]
  /\ UNCHANGED <<smSessions, smConnections>>

(* ------- core/gemini_client.py: create_gsession on config.CONFIG ------- *)
\* bound: connections whose handshakes are being prepared
MaxHands == 3

Hands == 1..MaxHands

VARIABLES
  CONFIG,     \* config.CONFIG, the dict of the module: voice_name and system_instruction
  cg,         \* per connection: how far its preparation and its handler have come
  openedWith  \* per connection: the configuration its upstream stream was opened with

cfgVars == <<CONFIG, cg, openedWith>>

\* config.py lines 123-242: CONFIG as the module is loaded, with the default
\* voice and the template itself as system instruction
DefaultConfig == [voice_name |-> <<"voice", 0>>, system_instruction |-> <<"TEMPLATE">>]

\* the stream has not been opened
NoConfig == [voice_name |-> <<>>, system_instruction |-> <<>>]

\* create_base_info, server.py lines 134-155: the voice, the date and the
\* location of the connection's own request; connection c asks for voice c
\* and for time and location c
BaseInfoOf(c) == [voice |-> <<"voice", c>>, date |-> c, location |-> c]

\* line 75: SYSTEM_INSTRUCTION_TEMPLATE.format(Time=..., Location=...)
Format(b) == <<"TEMPLATE", b.date, b.location>>

CfgInit ==
  /\ CONFIG = DefaultConfig
  /\ cg = [c \in Hands |-> "new"]
  /\ openedWith = [c \in Hands |-> NoConfig]

\* process_request, server.py lines 197-207: the preparation of the
\* connection starts on a thread of the executor; create_gsession makes its
\* client (lines 35-71)
CfgRequest(c) ==
  /\ cg[c] = "new"
  /\ cg' = [cg EXCEPT ![c] = "voice"]
  /\ UNCHANGED <<CONFIG, openedWith>>

\* create_gsession, lines 73-74: the voice is written into the shared dict
create_gsession_voice(c) ==
  /\ cg[c] = "voice"
  /\ CONFIG' = [CONFIG EXCEPT !.voice_name = BaseInfoOf(c).voice]
  /\ cg' = [cg EXCEPT ![c] = "instruction"]
  /\ UNCHANGED openedWith

\* create_gsession, line 75: the system instruction is written into it
create_gsession_instruction(c) ==
  /\ cg[c] = "instruction"
  /\ CONFIG' = [CONFIG EXCEPT !.system_instruction = Format(BaseInfoOf(c))]
  /\ cg' = [cg EXCEPT ![c] = "connect"]
  /\ UNCHANGED openedWith

\* create_gsession, lines 78-82: client.aio.live.connect(model=MODEL,
\* config=CONFIG) makes the context manager, which holds the dict itself;
\* pre_operation_background hands it to the connection's future
create_gsession_connect(c) ==
  /\ cg[c] = "connect"
  /\ cg' = [cg EXCEPT ![c] = "ready"]
  /\ UNCHANGED <<CONFIG, openedWith>>

\* safe_ws_handler, server.py lines 245-246: `async with session` enters the
\* context manager, which opens the upstream stream with what the dict holds
\* at that moment
CfgEnter(c) ==
  /\ cg[c] = "ready"
  /\ openedWith' = [openedWith EXCEPT ![c] = CONFIG]
  /\ cg' = [cg EXCEPT ![c] = "open"]
  /\ UNCHANGED CONFIG

(* ------------- the text cleaners applied to chosen texts --------------- *)
\* bound: length of the texts given to smart_clean_spaces
MaxLen == 6

\* one character of each class smart_clean_spaces tells apart
TextAlphabet == {"zh1", "H", "1", " ", "zh,", "!"}

TextsUpTo(n) == UNION {[1..k -> TextAlphabet] : k \in 0..n}

VARIABLES
  txIn,   \* the text given to smart_clean_spaces
  txOut   \* the results of applying it once, twice

textVars == <<txIn, txOut>>

TextInit == txIn = <<>> /\ txOut = <<>>

\* smart_clean_spaces applied to the text, then to its own result
Normalize ==
  /\ Len(txOut) < 2
  /\ txOut' = Append(txOut, smart_clean_spaces(IF txOut = <<>> THEN txIn ELSE txOut[1]))
  /\ UNCHANGED txIn

(* --------------------------- specifications ---------------------------- *)
vars == <<connVars, poolVars, gateVars, regVars, textVars, cfgVars>>

Init == ConnInit /\ PoolInit /\ GateInit /\ RegInit /\ TextInit /\ CfgInit

Next ==
  \/ process_request /\ UNCHANGED <<poolVars, gateVars, regVars, textVars, cfgVars>>
  \/ pre_operation_background /\ UNCHANGED <<poolVars, gateVars, regVars, textVars, cfgVars>>
  \/ ShSendReady /\ UNCHANGED <<poolVars, gateVars, regVars, textVars, cfgVars>>
  \/ ShLookup /\ UNCHANGED <<poolVars, gateVars, regVars, textVars, cfgVars>>
  \/ ShResult /\ UNCHANGED <<poolVars, gateVars, regVars, textVars, cfgVars>>
  \/ ShTimeout /\ UNCHANGED <<poolVars, gateVars, regVars, textVars, cfgVars>>
  \/ ShEnter /\ UNCHANGED <<poolVars, gateVars, regVars, textVars, cfgVars>>
  \/ ShExit /\ UNCHANGED <<poolVars, gateVars, regVars, textVars, cfgVars>>
  \/ ShFinally /\ UNCHANGED <<poolVars, gateVars, regVars, textVars, cfgVars>>
  \/ ClientClose /\ UNCHANGED <<poolVars, gateVars, regVars, textVars, cfgVars>>
  \/ ClientSend /\ UNCHANGED <<poolVars, gateVars, regVars, textVars, cfgVars>>
  \/ CtRead /\ UNCHANGED <<poolVars, gateVars, regVars, textVars, cfgVars>>
  \/ CtPeerClosed /\ UNCHANGED <<poolVars, gateVars, regVars, textVars, cfgVars>>
  \/ CtCancelled /\ UNCHANGED <<poolVars, gateVars, regVars, textVars, cfgVars>>
  \/ GtRecv /\ UNCHANGED <<poolVars, gateVars, regVars, textVars, cfgVars>>
  \/ GtNotifyStart /\ UNCHANGED <<poolVars, gateVars, regVars, textVars, cfgVars>>
  \/ GtCreate /\ UNCHANGED <<poolVars, gateVars, regVars, textVars, cfgVars>>
  \/ GtNotifyDone /\ UNCHANGED <<poolVars, gateVars, regVars, textVars, cfgVars>>
  \/ GtCancelled /\ UNCHANGED <<poolVars, gateVars, regVars, textVars, cfgVars>>
  \/ TpTake /\ UNCHANGED <<poolVars, gateVars, regVars, textVars, cfgVars>>
  \/ TpDone /\ UNCHANGED <<poolVars, gateVars, regVars, textVars, cfgVars>>
  \/ HandleMessagesExit /\ UNCHANGED <<poolVars, gateVars, regVars, textVars, cfgVars>>
  \/ HcFinally /\ UNCHANGED <<poolVars, gateVars, regVars, textVars, cfgVars>>

Spec == Init /\ [][Next]_vars

NextPool ==
  \/ initialize_warmup_background /\ UNCHANGED <<connVars, gateVars, regVars, textVars, cfgVars>>
  \/ warmup_sessions_batch /\ UNCHANGED <<connVars, gateVars, regVars, textVars, cfgVars>>
  \/ warmup_sessions_gathered /\ UNCHANGED <<connVars, gateVars, regVars, textVars, cfgVars>>
  \/ WarmupTaskStart /\ UNCHANGED <<connVars, gateVars, regVars, textVars, cfgVars>>
  \/ WarmupTaskEnd /\ UNCHANGED <<connVars, gateVars, regVars, textVars, cfgVars>>
  \/ EnsureTaskStart /\ UNCHANGED <<connVars, gateVars, regVars, textVars, cfgVars>>
  \/ EnsureTaskEnd /\ UNCHANGED <<connVars, gateVars, regVars, textVars, cfgVars>>
  \/ get_session /\ UNCHANGED <<connVars, gateVars, regVars, textVars, cfgVars>>
  \/ get_session_created /\ UNCHANGED <<connVars, gateVars, regVars, textVars, cfgVars>>
  \/ ensure_pool_capacity /\ UNCHANGED <<connVars, gateVars, regVars, textVars, cfgVars>>
  \/ ensure_pool_capacity_done /\ UNCHANGED <<connVars, gateVars, regVars, textVars, cfgVars>>
  \/ return_session /\ UNCHANGED <<connVars, gateVars, regVars, textVars, cfgVars>>
  \/ keep_alive_wake /\ UNCHANGED <<connVars, gateVars, regVars, textVars, cfgVars>>
  \/ keep_alive_visit /\ UNCHANGED <<connVars, gateVars, regVars, textVars, cfgVars>>
  \/ shutdown /\ UNCHANGED <<connVars, gateVars, regVars, textVars, cfgVars>>

SpecPool == Init /\ [][NextPool]_vars

NextGate ==
  \/ robustness_middleware /\ UNCHANGED <<connVars, poolVars, regVars, textVars, cfgVars>>
  \/ handle_client_start /\ UNCHANGED <<connVars, poolVars, regVars, textVars, cfgVars>>
  \/ Tick /\ UNCHANGED <<connVars, poolVars, regVars, textVars, cfgVars>>

SpecGate == Init /\ [][NextGate]_vars

\* the registry under the handlers of several connections
NextRegistry ==
  \/ (\E c \in Conns : HcAdd(c)) /\ UNCHANGED <<connVars, poolVars, gateVars, textVars, cfgVars>>
  \/ (\E c \in Conns : HcRemove(c)) /\ UNCHANGED <<connVars, poolVars, gateVars, textVars, cfgVars>>
  \/ (\E c \in Conns : HcKeep(c)) /\ UNCHANGED <<connVars, poolVars, gateVars, textVars, cfgVars>>
  \/ (\E c \in Conns : NextConnection(c)) /\ UNCHANGED <<connVars, poolVars, gateVars, textVars, cfgVars>>

SpecRegistry == Init /\ [][NextRegistry]_vars

\* one connection whose upstream sends the model text part
\* "\u4f60\u597d \uff0c  \u4e16\u754c hello"
Example == <<"zh1", "zh2", " ", "zh,", " ", " ", "zh3", "zh4", " ", "h", "e", "l", "l", "o">>

ExampleTexts == {Example}

ExampleEvents == {"content", "closed_ok"}

NextExample ==
  \/ process_request /\ UNCHANGED <<poolVars, gateVars, regVars, textVars, cfgVars>>
  \/ pre_operation_background /\ UNCHANGED <<poolVars, gateVars, regVars, textVars, cfgVars>>
  \/ ShSendReady /\ UNCHANGED <<poolVars, gateVars, regVars, textVars, cfgVars>>
  \/ ShLookup /\ UNCHANGED <<poolVars, gateVars, regVars, textVars, cfgVars>>
  \/ ShResult /\ UNCHANGED <<poolVars, gateVars, regVars, textVars, cfgVars>>
  \/ ShTimeout /\ UNCHANGED <<poolVars, gateVars, regVars, textVars, cfgVars>>
  \/ ShEnter /\ UNCHANGED <<poolVars, gateVars, regVars, textVars, cfgVars>>
  \/ ShExit /\ UNCHANGED <<poolVars, gateVars, regVars, textVars, cfgVars>>
  \/ ShFinally /\ UNCHANGED <<poolVars, gateVars, regVars, textVars, cfgVars>>
  \/ ClientClose /\ UNCHANGED <<poolVars, gateVars, regVars, textVars, cfgVars>>
  \/ CtPeerClosed /\ UNCHANGED <<poolVars, gateVars, regVars, textVars, cfgVars>>
  \/ GtRecvOn(ExampleEvents, ExampleTexts, PlainCalls) /\ UNCHANGED <<poolVars, gateVars, regVars, textVars, cfgVars>>
  \/ HandleMessagesExit /\ UNCHANGED <<poolVars, gateVars, regVars, textVars, cfgVars>>
  \/ HcFinally /\ UNCHANGED <<poolVars, gateVars, regVars, textVars, cfgVars>>

SpecExample == Init /\ [][NextExample]_vars

\* smart_clean_spaces on every text of the alphabet up to the bound
InitText ==
  /\ ConnInit /\ PoolInit /\ GateInit /\ RegInit /\ CfgInit
  /\ txIn \in TextsUpTo(MaxLen)
  /\ txOut = <<>>

NextText ==
  \/ Normalize /\ UNCHANGED <<connVars, poolVars, gateVars, regVars, cfgVars>>

SpecText == InitText /\ [][NextText]_vars

\* the gate seen from one address, with the finer clock
NextWindow ==
  \/ (\E ip \in {CHOOSE i \in IPs : TRUE} : MiddlewareOn(ip)) /\ UNCHANGED <<connVars, poolVars, regVars, textVars, cfgVars>>
  \/ TickBy(WindowSteps) /\ UNCHANGED <<connVars, poolVars, regVars, textVars, cfgVars>>

SpecWindow == Init /\ [][NextWindow]_vars

\* one connection whose client sends every shape of frame, facing an upstream
\* that delivers model turns without transcriptions, closes, or fails
FrameEvents == {"content", "turn_complete", "closed_ok", "quota"}

NextFrames ==
  \/ process_request /\ UNCHANGED <<poolVars, gateVars, regVars, textVars, cfgVars>>
  \/ pre_operation_background /\ UNCHANGED <<poolVars, gateVars, regVars, textVars, cfgVars>>
  \/ ShSendReady /\ UNCHANGED <<poolVars, gateVars, regVars, textVars, cfgVars>>
  \/ ShLookup /\ UNCHANGED <<poolVars, gateVars, regVars, textVars, cfgVars>>
  \/ ShResult /\ UNCHANGED <<poolVars, gateVars, regVars, textVars, cfgVars>>
  \/ ShTimeout /\ UNCHANGED <<poolVars, gateVars, regVars, textVars, cfgVars>>
  \/ ShEnter /\ UNCHANGED <<poolVars, gateVars, regVars, textVars, cfgVars>>
  \/ ShExit /\ UNCHANGED <<poolVars, gateVars, regVars, textVars, cfgVars>>
  \/ ShFinally /\ UNCHANGED <<poolVars, gateVars, regVars, textVars, cfgVars>>
  \/ ClientClose /\ UNCHANGED <<poolVars, gateVars, regVars, textVars, cfgVars>>
  \/ ClientSendOf(AllFrames, MaxFrames) /\ UNCHANGED <<poolVars, gateVars, regVars, textVars, cfgVars>>
  \/ CtRead /\ UNCHANGED <<poolVars, gateVars, regVars, textVars, cfgVars>>
  \/ CtPeerClosed /\ UNCHANGED <<poolVars, gateVars, regVars, textVars, cfgVars>>
  \/ CtCancelled /\ UNCHANGED <<poolVars, gateVars, regVars, textVars, cfgVars>>
  \/ GtRecvOn(FrameEvents, PlainTexts, PlainCalls) /\ UNCHANGED <<poolVars, gateVars, regVars, textVars, cfgVars>>
  \/ GtCancelled /\ UNCHANGED <<poolVars, gateVars, regVars, textVars, cfgVars>>
  \/ HandleMessagesExit /\ UNCHANGED <<poolVars, gateVars, regVars, textVars, cfgVars>>
  \/ HcFinally /\ UNCHANGED <<poolVars, gateVars, regVars, textVars, cfgVars>>

SpecFrames == Init /\ [][NextFrames]_vars

\* one connection whose upstream delivers model turns with transcriptions of
\* both sides, in texts of every kind the cleaners tell apart
TurnEvents == {"content", "in_tr", "out_tr", "turn_complete", "closed_ok"}

TurnTexts == {<<>>, Hello, <<"zh1", " ", "zh2", "\"">>}

InitTurns == ConnInitFor(MaxTurn) /\ PoolInit /\ GateInit /\ RegInit /\ TextInit /\ CfgInit

NextTurns ==
  \/ process_request /\ UNCHANGED <<poolVars, gateVars, regVars, textVars, cfgVars>>
  \/ pre_operation_background /\ UNCHANGED <<poolVars, gateVars, regVars, textVars, cfgVars>>
  \/ ShSendReady /\ UNCHANGED <<poolVars, gateVars, regVars, textVars, cfgVars>>
  \/ ShLookup /\ UNCHANGED <<poolVars, gateVars, regVars, textVars, cfgVars>>
  \/ ShResult /\ UNCHANGED <<poolVars, gateVars, regVars, textVars, cfgVars>>
  \/ ShTimeout /\ UNCHANGED <<poolVars, gateVars, regVars, textVars, cfgVars>>
  \/ ShEnter /\ UNCHANGED <<poolVars, gateVars, regVars, textVars, cfgVars>>
  \/ ShExit /\ UNCHANGED <<poolVars, gateVars, regVars, textVars, cfgVars>>
  \/ ShFinally /\ UNCHANGED <<poolVars, gateVars, regVars, textVars, cfgVars>>
  \/ ClientClose /\ UNCHANGED <<poolVars, gateVars, regVars, textVars, cfgVars>>
  \/ CtPeerClosed /\ UNCHANGED <<poolVars, gateVars, regVars, textVars, cfgVars>>
  \/ GtRecvOn(TurnEvents, TurnTexts, PlainCalls) /\ UNCHANGED <<poolVars, gateVars, regVars, textVars, cfgVars>>
  \/ HandleMessagesExit /\ UNCHANGED <<poolVars, gateVars, regVars, textVars, cfgVars>>
  \/ HcFinally /\ UNCHANGED <<poolVars, gateVars, regVars, textVars, cfgVars>>

SpecTurns == InitTurns /\ [][NextTurns]_vars

\* one connection whose upstream sends tool_call envelopes of every shape:
\* no call, one call, two calls, and a last call named startLiveVideoChat
MaxEnv == 3

ToolEvents == {"tool_call", "closed_ok"}

ToolEnvs == {<<>>, <<"a">>, <<"a", "b">>, <<"a", "startLiveVideoChat">>}

InitTools == ConnInitFor(MaxEnv) /\ PoolInit /\ GateInit /\ RegInit /\ TextInit /\ CfgInit

NextTools ==
  \/ process_request /\ UNCHANGED <<poolVars, gateVars, regVars, textVars, cfgVars>>
  \/ pre_operation_background /\ UNCHANGED <<poolVars, gateVars, regVars, textVars, cfgVars>>
  \/ ShSendReady /\ UNCHANGED <<poolVars, gateVars, regVars, textVars, cfgVars>>
  \/ ShLookup /\ UNCHANGED <<poolVars, gateVars, regVars, textVars, cfgVars>>
  \/ ShResult /\ UNCHANGED <<poolVars, gateVars, regVars, textVars, cfgVars>>
  \/ ShTimeout /\ UNCHANGED <<poolVars, gateVars, regVars, textVars, cfgVars>>
  \/ ShEnter /\ UNCHANGED <<poolVars, gateVars, regVars, textVars, cfgVars>>
  \/ ShExit /\ UNCHANGED <<poolVars, gateVars, regVars, textVars, cfgVars>>
  \/ ShFinally /\ UNCHANGED <<poolVars, gateVars, regVars, textVars, cfgVars>>
  \/ ClientClose /\ UNCHANGED <<poolVars, gateVars, regVars, textVars, cfgVars>>
  \/ CtPeerClosed /\ UNCHANGED <<poolVars, gateVars, regVars, textVars, cfgVars>>
  \/ GtRecvOn(ToolEvents, PlainTexts, ToolEnvs) /\ UNCHANGED <<poolVars, gateVars, regVars, textVars, cfgVars>>
  \/ TpTake /\ UNCHANGED <<poolVars, gateVars, regVars, textVars, cfgVars>>
  \/ TpDone /\ UNCHANGED <<poolVars, gateVars, regVars, textVars, cfgVars>>
  \/ HandleMessagesExit /\ UNCHANGED <<poolVars, gateVars, regVars, textVars, cfgVars>>
  \/ HcFinally /\ UNCHANGED <<poolVars, gateVars, regVars, textVars, cfgVars>>

SpecTools == InitTools /\ [][NextTools]_vars

\* one connection whose upstream sends model text between tool_call envelopes
StreamEvents == {"tool_call", "content", "closed_ok"}

StreamEnvs == {<<"a">>, <<"a", "b">>}

NextStream ==
  \/ process_request /\ UNCHANGED <<poolVars, gateVars, regVars, textVars, cfgVars>>
  \/ pre_operation_background /\ UNCHANGED <<poolVars, gateVars, regVars, textVars, cfgVars>>
  \/ ShSendReady /\ UNCHANGED <<poolVars, gateVars, regVars, textVars, cfgVars>>
  \/ ShLookup /\ UNCHANGED <<poolVars, gateVars, regVars, textVars, cfgVars>>
  \/ ShResult /\ UNCHANGED <<poolVars, gateVars, regVars, textVars, cfgVars>>
  \/ ShTimeout /\ UNCHANGED <<poolVars, gateVars, regVars, textVars, cfgVars>>
  \/ ShEnter /\ UNCHANGED <<poolVars, gateVars, regVars, textVars, cfgVars>>
  \/ ShExit /\ UNCHANGED <<poolVars, gateVars, regVars, textVars, cfgVars>>
  \/ ShFinally /\ UNCHANGED <<poolVars, gateVars, regVars, textVars, cfgVars>>
  \/ ClientClose /\ UNCHANGED <<poolVars, gateVars, regVars, textVars, cfgVars>>
  \/ CtPeerClosed /\ UNCHANGED <<poolVars, gateVars, regVars, textVars, cfgVars>>
  \/ GtRecvOn(StreamEvents, PlainTexts, StreamEnvs) /\ UNCHANGED <<poolVars, gateVars, regVars, textVars, cfgVars>>
  \/ TpTake /\ UNCHANGED <<poolVars, gateVars, regVars, textVars, cfgVars>>
  \/ TpDone /\ UNCHANGED <<poolVars, gateVars, regVars, textVars, cfgVars>>
  \/ HandleMessagesExit /\ UNCHANGED <<poolVars, gateVars, regVars, textVars, cfgVars>>
  \/ HcFinally /\ UNCHANGED <<poolVars, gateVars, regVars, textVars, cfgVars>>

SpecStream == InitTools /\ [][NextStream]_vars

\* one connection with transcripts, publications and tool calls, whose
\* cleanup is run again after handle_client has finished
CleanupEvents == {"in_tr", "turn_complete", "tool_call", "closed_ok"}

InitCleanup == ConnInitFor(MaxTurn) /\ PoolInit /\ GateInit /\ RegInit /\ TextInit /\ CfgInit

NextCleanup ==
  \/ process_request /\ UNCHANGED <<poolVars, gateVars, regVars, textVars, cfgVars>>
  \/ pre_operation_background /\ UNCHANGED <<poolVars, gateVars, regVars, textVars, cfgVars>>
  \/ ShSendReady /\ UNCHANGED <<poolVars, gateVars, regVars, textVars, cfgVars>>
  \/ ShLookup /\ UNCHANGED <<poolVars, gateVars, regVars, textVars, cfgVars>>
  \/ ShResult /\ UNCHANGED <<poolVars, gateVars, regVars, textVars, cfgVars>>
  \/ ShTimeout /\ UNCHANGED <<poolVars, gateVars, regVars, textVars, cfgVars>>
  \/ ShEnter /\ UNCHANGED <<poolVars, gateVars, regVars, textVars, cfgVars>>
  \/ ShExit /\ UNCHANGED <<poolVars, gateVars, regVars, textVars, cfgVars>>
  \/ ShFinally /\ UNCHANGED <<poolVars, gateVars, regVars, textVars, cfgVars>>
  \/ ClientClose /\ UNCHANGED <<poolVars, gateVars, regVars, textVars, cfgVars>>
  \/ CtPeerClosed /\ UNCHANGED <<poolVars, gateVars, regVars, textVars, cfgVars>>
  \/ GtRecvOn(CleanupEvents, PlainTexts, PlainCalls) /\ UNCHANGED <<poolVars, gateVars, regVars, textVars, cfgVars>>
  \/ TpTake /\ UNCHANGED <<poolVars, gateVars, regVars, textVars, cfgVars>>
  \/ TpDone /\ UNCHANGED <<poolVars, gateVars, regVars, textVars, cfgVars>>
  \/ HandleMessagesExit /\ UNCHANGED <<poolVars, gateVars, regVars, textVars, cfgVars>>
  \/ HcFinally /\ UNCHANGED <<poolVars, gateVars, regVars, textVars, cfgVars>>
  \/ CleanupAgain /\ UNCHANGED <<poolVars, gateVars, regVars, textVars, cfgVars>>

SpecCleanup == InitCleanup /\ [][NextCleanup]_vars

\* the handshakes of several connections, prepared side by side
NextConfig ==
  \/ \E c \in Hands : CfgRequest(c) /\ UNCHANGED <<connVars, poolVars, gateVars, regVars, textVars>>
  \/ \E c \in Hands : create_gsession_voice(c) /\ UNCHANGED <<connVars, poolVars, gateVars, regVars, textVars>>
  \/ \E c \in Hands : create_gsession_instruction(c) /\ UNCHANGED <<connVars, poolVars, gateVars, regVars, textVars>>
  \/ \E c \in Hands : create_gsession_connect(c) /\ UNCHANGED <<connVars, poolVars, gateVars, regVars, textVars>>
  \/ \E c \in Hands : CfgEnter(c) /\ UNCHANGED <<connVars, poolVars, gateVars, regVars, textVars>>

SpecConfig == Init /\ [][NextConfig]_vars

\* one connection whose upstream announces its closing (go_away) or closes
ReconnectEvents == {"go_away", "closed_ok", "closed_err"}

NextReconnect ==
  \/ process_request /\ UNCHANGED <<poolVars, gateVars, regVars, textVars, cfgVars>>
  \/ pre_operation_background /\ UNCHANGED <<poolVars, gateVars, regVars, textVars, cfgVars>>
  \/ ShSendReady /\ UNCHANGED <<poolVars, gateVars, regVars, textVars, cfgVars>>
  \/ ShLookup /\ UNCHANGED <<poolVars, gateVars, regVars, textVars, cfgVars>>
  \/ ShResult /\ UNCHANGED <<poolVars, gateVars, regVars, textVars, cfgVars>>
  \/ ShTimeout /\ UNCHANGED <<poolVars, gateVars, regVars, textVars, cfgVars>>
  \/ ShEnter /\ UNCHANGED <<poolVars, gateVars, regVars, textVars, cfgVars>>
  \/ ShExit /\ UNCHANGED <<poolVars, gateVars, regVars, textVars, cfgVars>>
  \/ ShFinally /\ UNCHANGED <<poolVars, gateVars, regVars, textVars, cfgVars>>
  \/ ClientClose /\ UNCHANGED <<poolVars, gateVars, regVars, textVars, cfgVars>>
  \/ ClientSendOf({Frame("text", "d")}, MaxClient) /\ UNCHANGED <<poolVars, gateVars, regVars, textVars, cfgVars>>
  \/ CtRead /\ UNCHANGED <<poolVars, gateVars, regVars, textVars, cfgVars>>
  \/ CtPeerClosed /\ UNCHANGED <<poolVars, gateVars, regVars, textVars, cfgVars>>
  \/ CtCancelled /\ UNCHANGED <<poolVars, gateVars, regVars, textVars, cfgVars>>
  \/ GtRecvOn(ReconnectEvents, PlainTexts, PlainCalls) /\ UNCHANGED <<poolVars, gateVars, regVars, textVars, cfgVars>>
  \/ GtNotifyStart /\ UNCHANGED <<poolVars, gateVars, regVars, textVars, cfgVars>>
  \/ GtCreate /\ UNCHANGED <<poolVars, gateVars, regVars, textVars, cfgVars>>
  \/ GtNotifyDone /\ UNCHANGED <<poolVars, gateVars, regVars, textVars, cfgVars>>
  \/ GtCancelled /\ UNCHANGED <<poolVars, gateVars, regVars, textVars, cfgVars>>
  \/ HandleMessagesExit /\ UNCHANGED <<poolVars, gateVars, regVars, textVars, cfgVars>>
  \/ HcFinally /\ UNCHANGED <<poolVars, gateVars, regVars, textVars, cfgVars>>

SpecReconnect == Init /\ [][NextReconnect]_vars

\* the event loop runs every task that can take a step, and the upstream
\* delivers what it has to deliver; the client sends and closes as it likes
FairReconnect ==
  /\ WF_vars(process_request /\ UNCHANGED <<poolVars, gateVars, regVars, textVars, cfgVars>>)
  /\ WF_vars(pre_operation_background /\ UNCHANGED <<poolVars, gateVars, regVars, textVars, cfgVars>>)
  /\ WF_vars(ShSendReady /\ UNCHANGED <<poolVars, gateVars, regVars, textVars, cfgVars>>)
  /\ WF_vars(ShLookup /\ UNCHANGED <<poolVars, gateVars, regVars, textVars, cfgVars>>)
  /\ WF_vars(ShResult /\ UNCHANGED <<poolVars, gateVars, regVars, textVars, cfgVars>>)
  /\ WF_vars(ShTimeout /\ UNCHANGED <<poolVars, gateVars, regVars, textVars, cfgVars>>)
  /\ WF_vars(ShEnter /\ UNCHANGED <<poolVars, gateVars, regVars, textVars, cfgVars>>)
  /\ WF_vars(ShExit /\ UNCHANGED <<poolVars, gateVars, regVars, textVars, cfgVars>>)
  /\ WF_vars(ShFinally /\ UNCHANGED <<poolVars, gateVars, regVars, textVars, cfgVars>>)
  /\ WF_vars(CtRead /\ UNCHANGED <<poolVars, gateVars, regVars, textVars, cfgVars>>)
  /\ WF_vars(CtPeerClosed /\ UNCHANGED <<poolVars, gateVars, regVars, textVars, cfgVars>>)
  /\ WF_vars(CtCancelled /\ UNCHANGED <<poolVars, gateVars, regVars, textVars, cfgVars>>)
  /\ WF_vars(GtRecvOn(ReconnectEvents, PlainTexts, PlainCalls) /\ UNCHANGED <<poolVars, gateVars, regVars, textVars, cfgVars>>)
  /\ WF_vars(GtNotifyStart /\ UNCHANGED <<poolVars, gateVars, regVars, textVars, cfgVars>>)
  /\ WF_vars(GtCreate /\ UNCHANGED <<poolVars, gateVars, regVars, textVars, cfgVars>>)
  /\ WF_vars(GtNotifyDone /\ UNCHANGED <<poolVars, gateVars, regVars, textVars, cfgVars>>)
  /\ WF_vars(GtCancelled /\ UNCHANGED <<poolVars, gateVars, regVars, textVars, cfgVars>>)
  /\ WF_vars(HandleMessagesExit /\ UNCHANGED <<poolVars, gateVars, regVars, textVars, cfgVars>>)
  /\ WF_vars(HcFinally /\ UNCHANGED <<poolVars, gateVars, regVars, textVars, cfgVars>>)

SpecReconnectLive == SpecReconnect /\ FairReconnect

(* ======================= claims on the connection ====================== *)
IsPrefix(s, t) == Len(s) <= Len(t) /\ \A i \in 1..Len(s) : s[i] = t[i]

Count(seq, f) == Cardinality({i \in 1..Len(seq) : seq[i] = f})

\* C1: a ReconnectionCompleted raised by a pipeline reaches handle_client,
\* which re-enters handle_messages; between the signal and the re-entry there
\* is no cleanup, no registry removal and no close of the client socket.
\* (signals >= entries: a signal whose re-entry has not happened yet)
C1_SignalThenReentry ==
  (signals > 0 /\ signals >= entries) =>
     /\ hc = "pump"
     /\ cleanups = 0
     /\ wsCloseCalls = 0
     /\ regSessions /\ regConns

\* C2: once the client has seen "start reconnect" and "reconnected
\* successfully" (go_away path, nothing else going wrong), a text frame it
\* sends afterwards is read by the client pipeline and sent on the
\* replacement upstream: it is never left unread by a finished handler, and
\* it is never sent on the handle that was replaced
LateTextUnread ==
  \E i \in 1..Len(inbox) :
     inbox[i].type = "text" /\ inbox[i].data # "" /\ inbox[i].late

LateTextOnOldHandle ==
  \E j \in 1..Len(handles[1].sent) : handles[1].sent[j].late

C2_LateTextReachesReplacement ==
  (benign /\ HasFrame(out, "start_reconnect") /\ HasFrame(out, "reconnected")) =>
     /\ ~(hc = "done" /\ LateTextUnread)
     /\ ~LateTextOnOldHandle

\* C3: handling a go_away with time_left runs, in this order: close the
\* current upstream, "start reconnect", create the replacement from the
\* Session's BaseInfo, install it, "reconnected successfully", raise; a
\* go_away without time_left runs none of them
GoAwaySteps == <<"close", "notify_start", "create", "install", "notify_done", "raise">>

InGoAway == gpc \in {"ga_notify", "ga_create", "ga_done"}

C3_GoAwayOrder ==
  /\ InGoAway => (gaLog # <<>> /\ gaLog[1] = "close")
  /\ (gaLog # <<>> /\ gaLog[1] # "closed_err") => IsPrefix(gaLog, GoAwaySteps)
  /\ \A h \in 2..Len(handles) : handles[h].base = sessBase

\* C5: the readiness promise is either resolved and its result taken exactly
\* once by the handler, or cancelled because the handler left first; a result
\* set before the handler looks the promise up still reaches the handler
C5_PromiseConsumedOrCancelled ==
  (sh = "done" /\ ws # "peer_closed") =>
     /\ fut \in {"ok", "fail", "cancelled"}
     /\ fut \in {"ok", "fail"} => consumed = 1
     /\ fut = "cancelled" => consumed = 0

\* C6: exactly one ready frame is sent on a connection, reconnections
\* included; it is the first frame, and it is sent before the readiness
\* promise is looked up or awaited
C6_ReadyOnceAndFirst ==
  /\ Count(out, "ready") <= 1
  /\ out # <<>> => out[1] = "ready"
  /\ (sh \in {"lookup", "await", "enter", "client"} \/ consumed > 0 \/ timedOut)
        => Count(out, "ready") = 1

C6_Witness ==
  /\ hc = "done"
  /\ HasFrame(out, "reconnected")
  /\ HasFrame(out, "text")
  /\ Count(out, "ready") = 1

\* C7: when the promise is not resolved within the 5 s wait, the server
\* closes the socket with code 1008 and the pump is never started
C7_TimeoutCloses1008 ==
  (timedOut /\ sh = "done" /\ ws # "peer_closed") =>
     (closeCode = 1008 /\ entries = 0)

\* C8: when the promise resolves with ok = false the handler closes the
\* socket with 1008 "Gemini initialization failed" and handle_client is
\* never started
C8_FailureCloses1008 ==
  (fut = "fail" /\ sh = "done" /\ ws # "peer_closed") =>
     /\ closeCode = 1008
     /\ closeReason = "Gemini initialization failed"
     /\ entries = 0 /\ hc = "idle"

C26_ClientCloseCancels ==
  [][(/\ hc = "pump" /\ ws = "peer_closed" /\ inbox = <<>>
      /\ ct = "run" /\ ct' = "ret"
      /\ gt = "run")
       => (cancelReq' = "gt" \/ gt' = "cancelled")]_vars

(* ========================== claims on the pool ========================= *)
\* C4: while the pool is not shutting down, the queue never holds more than
\* pool_size clients, whatever the interleaving of warmup_sessions,
\* get_session, return_session, ensure_pool_capacity and keep_alive
C4_QueueWithinPoolSize == ~pShut => pq <= DEFAULT_POOL_SIZE

\* C21: on a pool that is not shutting down get_session can always be called
\* and never waits for the queue: with a client in the queue it takes the
\* head and returns it, with none it starts a creation of its own, which ends
\* whatever the queue, the semaphore, warmup and replenish do, by handing the
\* client to the caller or by raising the creation's exception
C21_NeverWaitsForQueue ==
  /\ []((~pShut /\ gets < MaxGets) => ENABLED get_session)
  /\ [](onDemand > 0 => ENABLED get_session_created)
  /\ [][/\ gets' = gets + 1 =>
             /\ ~pShut
             /\ IF pq > 0
                  THEN pq' = pq - 1 /\ held' = held + 1 /\ onDemand' = onDemand
                  ELSE pq' = pq /\ held' = held /\ onDemand' = onDemand + 1
        /\ onDemand' < onDemand =>
             /\ onDemand' = onDemand - 1
             /\ pq' = pq
             /\ held' \in {held, held + 1}]_vars

\* one call took the head of the queue and another one is creating its own
\* client on the empty queue, while warmup creations are in flight and an
\* ensure_pool_capacity is scheduled
C21_Witness ==
  gets = 2 /\ held = 1 /\ onDemand = 1 /\ pq = 0 /\ wCreating > 0 /\ eWait > 0 /\ ~pShut

\* C21 as stated: every get_session call returns a session
C21_EveryCallReturnsSession ==
  [][onDemand' < onDemand => held' = held + 1]_vars

\* C27: the creations in flight, those of warmup and of replenish waves
\* inside `async with self._sem` and those get_session makes on demand, are
\* never more than creation_concurrency
C27_CreationsBounded ==
  wCreating + eCreating + onDemand <= DEFAULT_CREATION_CONCURRENCY

\* C28: an ensure_pool_capacity invocation gets past the lock only while no
\* wave is in progress, whatever the number of invocations scheduled; one
\* that finds the queue at max(1, pool_size // 2) or above creates nothing,
\* one that finds it below launches pool_size - qsize creations; the lock is
\* released only when all of them have finished (or when shutdown cancels the
\* invocation with its wave), and creations of a wave exist only under the lock
C28_OneReplenishWave ==
  /\ [](~eLock => (ePend = 0 /\ eCreating = 0))
  /\ [][/\ (eWait' = eWait - 1 /\ ~pShut') =>
             /\ ~eLock /\ ePend = 0 /\ eCreating = 0
             /\ IF pq >= Max(1, DEFAULT_POOL_SIZE \div 2)
                  THEN ~eLock' /\ ePend' = 0 /\ eCreating' = 0 /\ pq' = pq
                  ELSE eLock' /\ ePend' = DEFAULT_POOL_SIZE - pq /\ eCreating' = 0
        /\ (eLock /\ ~eLock' /\ ~pShut') => (ePend = 0 /\ eCreating = 0)
        /\ (~eLock /\ eLock') => eWait' = eWait - 1
        /\ ePend' > ePend => (~eLock /\ eLock')]_vars

\* one invocation is in its wave, with creations running and others still
\* to start, while a second one, scheduled by another acquisition, waits for
\* the lock
C28_Witness ==
  eLock /\ eWait = 1 /\ eCreating > 0 /\ ePend > 0 /\ gets = 2 /\ ~pShut

\* C29: once warmup_sessions has ended, with no shutdown requested, no
\* get_session call made and no creation failed, the queue holds pool_size
\* clients
C29_WarmupFillsPool ==
  (wpc \in {"done", "crashed"} /\ ~pShut /\ gets = 0 /\ ~createFailed)
    => pq = DEFAULT_POOL_SIZE

\* C30: once shutdown has run the queue is empty and stays empty
C30_EmptyAfterShutdown == pShut => pq = 0

\* C39: when get_session hands a client to its caller on a pool that is not
\* shutting down, whose warmup is over, and the queue is then below the
\* threshold, an ensure_pool_capacity run is scheduled or holds the lock
C39_ReplenishScheduled ==
  [][(/\ held' = held + 1
      /\ ~pShut'
      /\ wpc' \in {"crashed", "done"} /\ wPend' = 0 /\ wCreating' = 0
      /\ pq' < Threshold)
       => (eWait' > 0 \/ eLock')]_vars

(* ======================== claims on the registry ======================= *)
\* C22: every socket in the registry's set has a session entry under its
\* session id, every session entry belongs to a socket in the set, and the
\* map and the set have the same size, in every state between the add and
\* remove calls of the handlers (a call is one step: it has no await under
\* the lock)
C22_RegistryConsistent ==
  /\ \A c \in smConnections : session_id(c) \in smSessions
  /\ \A sid \in smSessions : \E c \in smConnections : session_id(c) = sid
  /\ Cardinality(smSessions) = Cardinality(smConnections)
  /\ smConnections = {c \in Conns : hcAt[c] \in {"added", "kept"}}

\* three sockets are in the set, one of them kept by a handler that skipped
\* the removal, and the handler of a fourth connection has removed it
C22_Witness ==
  /\ Cardinality(smConnections) = 3
  /\ \E c \in Conns : hcAt[c] = "removed"
  /\ \E c \in Conns : hcAt[c] = "kept"

(* ========================= claims on the texts ========================= *)
\* C23: smart_clean_spaces applied to its own result gives that result again
C23_Idempotent == Len(txOut) = 2 => txOut[2] = txOut[1]

\* a text without a CJK character or a full-width mark
NoCjk(x) == CountIn(x, Cjk \cup CjkMarks) = 0

\* C24: a text made of ASCII letters, digits, punctuation and whitespace
\* only is returned by smart_clean_spaces as it was given
C24_EnglishUnchanged == (Len(txOut) >= 1 /\ NoCjk(txIn)) => txOut[1] = txIn

\* C25: every text frame made from the model text part
\* "\u4f60\u597d \uff0c  \u4e16\u754c hello" carries the data
\* "\u4f60\u597d\uff0c\u4e16\u754chello": no whitespace around the CJK comma and none
\* between the CJK run and the ASCII word
C25_ExampleDelivered ==
  \A i \in 1..Len(texts) :
    texts[i] = <<"zh1", "zh2", "zh,", "zh3", "zh4", "h", "e", "l", "l", "o">>

(* ========================== claims on the gate ========================= *)
\* C10: while an IP is banned (now < ban-until) every attempt from it is
\* refused and closed with 1008 "Forbidden": the attempt that trips the ban,
\* the attempts that follow, and every handle_client run on a socket of
\* that IP
Refused(run) == run.code = 1008 /\ run.reason = "Forbidden"

C10_BannedIsRefused ==
  /\ (gateLast.banned \/ gateLast.tripped) => Refused(gateLast)
  /\ handlerLast.banned => Refused(handlerLast)

\* C11: should_accept admits an attempt exactly when the IP is not banned at
\* that time and its recorded attempts younger than 300 s, the current one
\* included, number at most 10; the refused 11th sets ban-until to
\* now + 1800; recorded attempts of 300 s or more are dropped and not counted
InWindow(ip) ==
  Cardinality({i \in 1..Len(connection_attempts[ip]) :
                 now - connection_attempts[ip][i] < window})

ClientInputs(hs) ==
  Cardinality({p \in UNION {{<<i, j>> : j \in 1..Len(hs[i].sent)} : i \in 1..Len(hs)} :
                 hs[p[1]].sent[p[2]].kind \in {"text", "audio", "image"}})

ExpectedSend(m) ==
  CASE m.type = "text" -> [kind |-> "text", mime |-> "", eot |-> TRUE, late |-> m.late]
    [] m.type = "audio" -> [kind |-> "audio", mime |-> "audio/pcm", eot |-> TRUE, late |-> m.late]
    [] m.type = "image" -> [kind |-> "image", mime |-> "image/jpeg", eot |-> FALSE, late |-> m.late]

\* the step reads a frame off the socket
ReadsFrame == inbox # <<>> /\ inbox' = Tail(inbox)

\* C12: a frame of type text, audio or image with data makes one upstream
\* send on the current handle with the arguments of its type (or the send
\* raises and the pipeline ends); a frame of type end or of an unknown type
\* with data sends nothing and leaves the pipeline running; no step that does
\* not read a frame sends a client input upstream
C12_OneSendPerInput ==
  [][/\ ReadsFrame /\ Head(inbox).type \in {"text", "audio", "image"}
        /\ Head(inbox).data # ""
        => \/ handles' = [handles EXCEPT ![upstream].sent = Append(@, ExpectedSend(Head(inbox)))]
           \/ handles' = handles /\ ct' \in {"ret", "exc"}
     /\ ReadsFrame /\ Head(inbox).type \in {"end", "other"} /\ Head(inbox).data # ""
        => /\ handles' = handles
           /\ ct' # "cancelled" => ct' = "run"
     /\ ~ReadsFrame => ClientInputs(handles') = ClientInputs(handles)]_vars

\* C12 as stated, for frames without data as well: a frame of type end or of
\* an unknown type sends nothing upstream and leaves the pipeline running
C12_EndKeepsPipeline ==
  [][ReadsFrame /\ Head(inbox).type \in {"end", "other"}
       => /\ handles' = handles
          /\ ct' # "cancelled" => ct' = "run"]_vars

C12_Witness ==
  /\ upstream = 1
  /\ Len(handles[1].sent) = 2
  /\ handles[1].sent[1] = [kind |-> "image", mime |-> "image/jpeg", eot |-> FALSE, late |-> FALSE]
  /\ handles[1].sent[2] = [kind |-> "audio", mime |-> "audio/pcm", eot |-> TRUE, late |-> FALSE]

\* C13: reading {type:state, data:"stop"} closes the upstream session and ends
\* the client-to-upstream pipeline, and once that pipeline has ended no client
\* input is sent upstream
C13_StopClosesUpstream ==
  [][/\ ReadsFrame /\ Head(inbox).type = "state" /\ Head(inbox).data = "stop"
        => handles'[upstream].closed /\ ct' = "ret"
     /\ ct = "ret" => ClientInputs(handles') = ClientInputs(handles)]_vars

\* C14: a frame with a type and no data is answered with "data is null" and
\* ends the client-to-upstream pipeline without an upstream send, whatever
\* its type
C14_DataIsNull ==
  [][ReadsFrame /\ Head(inbox).type # "none" /\ Head(inbox).data = ""
       => /\ out' = IF ws = "open" THEN Append(out, "data_is_null") ELSE out
          /\ ct' = "ret"
          /\ handles' = handles]_vars

C14_Witness ==
  /\ HasFrame(out, "data_is_null")
  /\ ct = "ret"
  /\ ClientInputs(handles) = 0

\* positions of the published messages of a role
Published(role) == {i \in 1..Len(published) : published[i].role = role}

\* C15: a step publishes at most one user-role and at most one
\* assistant-role message, each the joined text of its transcript buffer,
\* which is not empty, and only a step that handles a turn_complete (its frame
\* goes to the client) publishes anything
C15_PublishOnTurnComplete ==
  [][/\ IsPrefix(published, published')
     /\ \A role \in {"user", "assistant"} :
          Cardinality(Published(role)') <= Cardinality(Published(role)) + 1
     /\ \A i \in (Len(published) + 1)..Len(published') :
          /\ out' = Append(out, "turn_complete")
          /\ published'[i].role \in {"user", "assistant"}
          /\ published'[i].role = "user"
               => Join(inTr) # <<>> /\ published'[i].content = Join(inTr)
          /\ published'[i].role = "assistant"
               => Join(outTr) # <<>> /\ published'[i].content = Join(outTr)]_vars

C15_Witness ==
  /\ Len(published) = 2
  /\ published[1].role = "user"
  /\ published[2] = [role |-> "assistant", content |-> Hello]
  /\ Count(out, "turn_complete") = 1

\* C16: when the client has received ready, the text "Hello!" of a model turn
\* and turn_complete, in that order, one assistant-role message with content
\* "Hello!" has been published
C16_HelloPublished ==
  (out = <<"ready", "text", "turn_complete">> /\ texts = <<Hello>>)
    => published = <<[role |-> "assistant", content |-> Hello]>>

\* C17: when handle_messages is left with a "Quota exceeded" error among the
\* pipelines' errors and the client socket open, the client is sent one
\* quota_exceeded error frame and one warning text frame at that point and no
\* others; and once handle_client is done after such an error, cleanup has
\* run and the socket is closed
C17_QuotaReported ==
  [][/\ (hc = "pump" /\ hc' # "pump" /\ HasFrame(errs, "Quota") /\ ws = "open")
          => out' = out \o <<"error_quota", "text_warning">>
     /\ Count(out', "error_quota") <= 1
     /\ Count(out', "text_warning") <= 1
     /\ (hc' = "done" /\ HasFrame(errs', "Quota"))
          => (cleanups' = 1 /\ ws' = "closed")]_vars

\* an upstream reconnection is under way: handle_gemini_responses is between
\* the go_away (or the abnormal close) and its ReconnectionCompleted, or the
\* signal is raised and handle_messages has not been entered again
InReconnection ==
  \/ gt = "run" /\ gpc \in {"ga_notify", "ga_create", "ga_done", "rc_create", "rc_done"}
  \/ signals >= entries /\ signals > 0

\* C18: a step taken while a reconnection is under way leaves the Session's
\* BaseInfo and producer as they are, keeps the Session registered under its
\* session_id, and changes no upstream handle but by closing the old one and
\* installing the replacement
C18_ReconnectKeepsSession ==
  [][InReconnection =>
       /\ sessBase' = sessBase
       /\ producer' = producer
       /\ activeSess' = activeSess
       /\ regSessions' = regSessions
       /\ regConns' = regConns]_vars

(* ========================= claims on the tools ========================= *)

\* the consolidated tool responses sent upstream, over every handle
ToolResponses(hs) ==
  Cardinality({p \in UNION {{<<i, j>> : j \in 1..Len(hs[i].sent)} : i \in 1..Len(hs)} :
                 hs[p[1]].sent[p[2]].kind = "tool_response"})

\* the entries of the log of kind k
Steps(log, k) == Cardinality({n \in 1..Len(log) : log[n].k = k})

\* entry n of the log follows the entry before it: envelopes in the order of
\* their enqueueing, none twice; a call starts an envelope or follows the
\* response of the call before it; a response or a raise ends the call just
\* made; the upstream send follows the response of the last call
InOrder(log, n) ==
  LET e == log[n]
      p == log[IF n = 1 THEN 1 ELSE n - 1]
  IN  /\ IF n = 1 THEN e.id = 1
                  ELSE IF p.k = "done" THEN e.id = p.id + 1 ELSE e.id = p.id
      /\ CASE e.k = "call" ->
                /\ e.i \in 1..Len(e.calls)
                /\ IF e.i = 1 THEN n = 1 \/ p.k = "done"
                              ELSE p.k = "resp" /\ p.i = e.i - 1
           [] e.k \in {"resp", "raised"} -> n > 1 /\ p.k = "call" /\ p.i = e.i
           [] e.k = "sent" -> n > 1 /\ p.k = "resp" /\ p.i = Len(e.calls) /\ e.i = p.i
           [] e.k = "done" -> n = 1 \/ p.k # "done" \/ e.calls = <<>>
           [] OTHER -> TRUE

\* C19: the calls of an envelope are made one at a time in the order given,
\* the function_call frame of a call goes to the client before its
\* function_response frame, the one consolidated tool response goes upstream
\* only after the response of the envelope's last call, and envelopes are
\* taken in the order they were enqueued
C19_ToolOrder ==
  /\ \A n \in 1..Len(toolLog) : InOrder(toolLog, n)
  /\ \A k \in 0..Len(out) :
       Count(SubSeq(out, 1, k), "function_response")
         <= Count(SubSeq(out, 1, k), "function_call")
  /\ Count(out, "function_call") = Steps(toolLog, "call")
  /\ Count(out, "function_response") = Steps(toolLog, "resp")
  /\ ToolResponses(handles) = Steps(toolLog, "sent")
  /\ tp = "exec" => /\ toolLog # <<>>
                    /\ toolLog[Len(toolLog)] = Step("call", tpCur)

\* two envelopes were handled, the second one with two calls, and its tool
\* response went upstream
C19_Witness ==
  \E n \in 1..Len(toolLog) :
    /\ toolLog[n].k = "sent" /\ toolLog[n].id = 2 /\ toolLog[n].calls = <<"a", "b">>
    /\ toolLog[1].k = "call"
    /\ ToolResponses(handles) >= 1

\* the step is one in which execute_tool raises
ExecuteToolRaises ==
  /\ Len(toolLog') > Len(toolLog)
  /\ toolLog'[Len(toolLog) + 1].k = "raised"

\* C20: a step in which execute_tool raises marks the queue item done and
\* leaves the consumer at queue.get() with the queue as it was, so that it
\* takes the next envelope; the pump, its tasks, the socket, the upstream
\* handles, the producer and the registry stay as they are and no cleanup runs
C20_RaiseIsSwallowed ==
  [][ExecuteToolRaises =>
       /\ unfinished' = unfinished - 1
       /\ toolLog' = toolLog \o <<Step("raised", tpCur), Step("done", tpCur)>>
       /\ tp' = "wait" /\ toolq' = toolq
       /\ hc = "pump" /\ hc' = "pump"
       /\ gt' = gt /\ ct' = ct /\ errs' = errs /\ cancelReq' = cancelReq
       /\ ws' = ws /\ out' = out /\ handles' = handles /\ upstream' = upstream
       /\ producer' = producer /\ sessBase' = sessBase
       /\ activeSess' = activeSess /\ regSessions' = regSessions
       /\ regConns' = regConns /\ cleanups' = cleanups]_vars

\* execute_tool raised in the first envelope and the consumer went on to
\* make the call of the second, with the pump still running
C20_Witness ==
  /\ hc = "pump" /\ cleanups = 0
  /\ \E n \in 1..Len(toolLog) : \E m \in 1..Len(toolLog) :
       /\ n < m
       /\ toolLog[n].k = "raised" /\ toolLog[n].id = 1
       /\ toolLog[m].k = "call" /\ toolLog[m].id = 2

\* the entries of the log for the envelope id
OfEnvelope(log, id) == SelectSeq(log, LAMBDA e : e.id = id)

\* C31: once the response frame of an envelope's last call is out, the send
\* of the tool response upstream is made exactly when the envelope's last
\* call is not startLiveVideoChat; an envelope without calls and one whose
\* last call is startLiveVideoChat send nothing upstream, and every tool
\* response upstream is the one send of an envelope
C31_ToolResponseRule ==
  /\ \A n \in 1..Len(toolLog) :
       LET e == toolLog[n] IN
         /\ (e.k = "resp" /\ e.i = Len(e.calls)) =>
              /\ n < Len(toolLog)
              /\ IF e.calls[Len(e.calls)] # "startLiveVideoChat"
                   THEN toolLog[n + 1].k \in {"sent", "failed"}
                   ELSE toolLog[n + 1].k = "done"
         /\ e.k = "sent" =>
              /\ e.calls # <<>>
              /\ e.calls[Len(e.calls)] # "startLiveVideoChat"
              /\ Steps(OfEnvelope(toolLog, e.id), "sent") = 1
              /\ Steps(OfEnvelope(toolLog, e.id), "resp") = Len(e.calls)
  /\ ToolResponses(handles) = Steps(toolLog, "sent")

\* an envelope of two calls had its tool response sent upstream, and an
\* envelope whose second call is startLiveVideoChat was completed without one
C31_Witness ==
  /\ \E n \in 1..Len(toolLog) :
       toolLog[n].k = "sent" /\ toolLog[n].calls = <<"a", "b">>
  /\ \E n \in 1..(Len(toolLog) - 1) :
       /\ toolLog[n].k = "resp" /\ toolLog[n].i = 2
       /\ toolLog[n].calls = <<"a", "startLiveVideoChat">>
       /\ toolLog[n + 1].k = "done"
  /\ ToolResponses(handles) = 1

\* C32: while process_tool_queue is executing a tool call, the upstream
\* pipeline waiting in receive() can take a tool_call message and can take a
\* content message; a tool_call it takes is put at the end of the queue in
\* the same step without touching the call in flight, and a content message
\* it takes is forwarded to the open client socket as a text frame
C32_ToolsDoNotBlockStream ==
  /\ []((hc = "pump" /\ gt = "run" /\ gpc = "recv" /\ upLeft > 0 /\ tp = "exec")
          => /\ ENABLED (/\ GtRecvOn({"tool_call"}, PlainTexts, StreamEnvs)
                         /\ UNCHANGED <<poolVars, gateVars, regVars, textVars, cfgVars>>)
             /\ ENABLED (/\ GtRecvOn({"content"}, {<<>>}, StreamEnvs)
                         /\ UNCHANGED <<poolVars, gateVars, regVars, textVars, cfgVars>>))
  /\ [][(tp = "exec" /\ puts' = puts + 1)
          => /\ Len(toolq') = Len(toolq) + 1
             /\ toolq'[Len(toolq')].id = puts'
             /\ tp' = "exec"
             /\ tpCur' = tpCur]_vars
  /\ [][(tp = "exec" /\ gt = "run" /\ gt' = "run" /\ upLeft' < upLeft
            /\ puts' = puts /\ WsOpen)
          => /\ out' = Append(out, "text")
             /\ tp' = "exec"]_vars

\* a tool call is in flight, the text of a content message was forwarded
\* after its function_call frame, and a later envelope waits in the queue
C32_Witness ==
  /\ tp = "exec"
  /\ Len(out) >= 2
  /\ out[Len(out) - 1] = "function_call"
  /\ out[Len(out)] = "text"
  /\ toolq # <<>>
  /\ toolq[1].id = tpCur.id + 1

\* the client pipeline reads an audio, image or text frame that has data: the
\* frame it passes to session.genai_session.send
ForwardsFrame ==
  /\ hc = "pump" /\ ct = "run"
  /\ inbox # <<>>
  /\ inbox' = Tail(inbox)
  /\ Head(inbox).type \in {"audio", "image", "text"}
  /\ ~DataMissing(Head(inbox))

\* C36: the client pipeline passes a frame to the Session's upstream handle
\* only while the proxy has not closed that handle
C36_NoSendOnClosedHandle ==
  [][ForwardsFrame => ~handles[upstream].closed]_vars

\* frames that answer a "start reconnect"
AnswerFrames == {"reconnected", "error_general", "error_quota"}

\* a "start reconnect" frame in `out` with no answer after it
Unanswered ==
  \E i \in 1..Len(out) :
    /\ out[i] = "start_reconnect"
    /\ \A j \in (i + 1)..Len(out) : out[j] \notin AnswerFrames

\* the upstream has no more events to deliver in this run of the model
UpstreamBoundReached == gt = "run" /\ gpc = "recv" /\ upLeft = 0

\* C37: once the client has been sent "start reconnect" it is later sent
\* "reconnected successfully" or an error frame, or its socket is closed
C37_ReconnectAnswered ==
  Unanswered ~> (~Unanswered \/ ws # "open" \/ UpstreamBoundReached)

\* C38: while process_tool_queue waits in queue.get() for the next envelope,
\* session.current_tool_execution is None
C38_ToolFieldClearedWhenIdle ==
  (hc = "pump" /\ tp = "wait") => ~curTool

(* ========================= claims on the turns ========================= *)
\* both flags of the Session are false
FlagsClear == ~is_receiving_response /\ ~received_model_response

C35_OwnConfiguration ==
  \A c \in Hands :
    cg[c] = "open" =>
      openedWith[c] = [voice_name |-> BaseInfoOf(c).voice,
                       system_instruction |-> Format(BaseInfoOf(c))]

============================================================================
